---- MODULE Spec2Model ----
(***************************************************************************)
(* A model of the leakcheck analyzer (src/leakcheck.go): the run of the    *)
(* analyzer on one compilation unit, its sequential and parallel file      *)
(* schedulers, the per-file extraction, the exclusion matcher with its     *)
(* process-wide compiled-pattern cache, and the diagnostics it reports.    *)
(*                                                                         *)
(* Go strings whose characters the code inspects (file names, package      *)
(* paths, patterns, function names) are sequences of one-character         *)
(* strings.  Identifiers and import paths the code only compares for       *)
(* equality are TLA+ strings.                                              *)
(***************************************************************************)
EXTENDS Integers, Sequences, FiniteSets, TLC

(***************************************************************************)
(* Package strings                                                         *)
(***************************************************************************)

Min(a, b) == IF a < b THEN a ELSE b

\* strings.HasPrefix
HasPrefix(s, p) ==
    /\ Len(p) <= Len(s)
    /\ SubSeq(s, 1, Len(p)) = p

\* strings.HasSuffix
HasSuffix(s, p) ==
    /\ Len(p) <= Len(s)
    /\ SubSeq(s, Len(s) - Len(p) + 1, Len(s)) = p

\* strings.Contains
Contains(s, sub) ==
    \E i \in 1..(Len(s) - Len(sub) + 1) : SubSeq(s, i, i + Len(sub) - 1) = sub

\* strings.ContainsAny
ContainsAny(s, chars) == \E i \in 1..Len(s) : s[i] \in chars

\* strings.LastIndex for a one-character separator, 1-based; 0 when absent
\* (Go: 0-based, -1 when absent)
LastIndex(s, ch) ==
    IF \E i \in 1..Len(s) : s[i] = ch
    THEN CHOOSE i \in 1..Len(s) : s[i] = ch /\ \A j \in (i+1)..Len(s) : s[j] # ch
    ELSE 0

\* white space as strings.TrimSpace sees it
WhiteSpace == {" ", "\t", "\n", "\r"}

\* strings.TrimSpace
TrimSpace(s) ==
    LET nonsp == {i \in 1..Len(s) : s[i] \notin WhiteSpace}
    IN  IF nonsp = {} THEN <<>>
        ELSE SubSeq(s, CHOOSE i \in nonsp : \A j \in nonsp : i <= j,
                       CHOOSE i \in nonsp : \A j \in nonsp : i >= j)

\* strings.Split(s, ","): the fields between the commas, in order
RECURSIVE SplitFrom(_, _, _)
SplitFrom(s, i, cur) ==
    IF i > Len(s) THEN <<cur>>
    ELSE IF s[i] = "," THEN <<cur>> \o SplitFrom(s, i + 1, <<>>)
    ELSE SplitFrom(s, i + 1, Append(cur, s[i]))

Split(s) == SplitFrom(s, 1, <<>>)

(***************************************************************************)
(* Package regexp, as far as the analyzer's patterns use it.  A compiled   *)
(* expression is a sequence of items [k, a, rep]: k the kind of atom, a    *)
(* its character, rep its repetition.                                      *)
(***************************************************************************)

\* the characters regexp.QuoteMeta escapes
QuotedMeta == {"\\", ".", "+", "*", "?", "(", ")", "|", "[", "]", "{", "}", "^", "$"}

\* regexp.QuoteMeta
RECURSIVE QuoteMeta(_)
QuoteMeta(s) ==
    IF s = <<>> THEN <<>>
    ELSE (IF Head(s) \in QuotedMeta THEN <<"\\", Head(s)>> ELSE <<Head(s)>>)
         \o QuoteMeta(Tail(s))

\* strings.ReplaceAll(s, `\*`, ".*")
RECURSIVE ReplaceEscapedStar(_)
ReplaceEscapedStar(s) ==
    IF Len(s) < 2 THEN s
    ELSE IF s[1] = "\\" /\ s[2] = "*"
         THEN <<".", "*">> \o ReplaceEscapedStar(SubSeq(s, 3, Len(s)))
         ELSE <<s[1]>> \o ReplaceEscapedStar(Tail(s))

Letters == {"a", "b", "c", "d", "e", "f", "g", "h", "i", "j", "k", "l", "m",
            "n", "o", "p", "q", "r", "s", "t", "u", "v", "w", "x", "y", "z"}
Digits == {"0", "1", "2", "3", "4", "5", "6", "7", "8", "9"}
WordChars == Letters \cup Digits \cup {"_"}

\* atoms that consume no character
IsAssertion(it) == it.k \in {"bol", "eol", "wb"}

\* the item a backslash escape stands for; k = "bad" is a compile error
EscapeItem(c) ==
    CASE c \notin (Letters \cup Digits) -> [k |-> "lit", a |-> c, rep |-> "one"]
      [] c = "d" -> [k |-> "digit", a |-> c, rep |-> "one"]
      [] c = "s" -> [k |-> "space", a |-> c, rep |-> "one"]
      [] c = "w" -> [k |-> "word", a |-> c, rep |-> "one"]
      [] c = "b" -> [k |-> "wb", a |-> c, rep |-> "one"]
      [] c \in {"a", "f", "t", "n", "r", "v"} ->
             [k |-> "lit", a |-> <<"ctrl", c>>, rep |-> "one"]
      [] OTHER -> [k |-> "bad", a |-> c, rep |-> "one"]

\* the parser of regexp/syntax on the characters the model's patterns are
\* made of: literals, . ^ $ \ and the repetitions * + ? (a ? after a
\* repetition makes it non-greedy).  lastRepeat says that the previous token
\* was a repetition.
RECURSIVE ParseRegexp(_, _, _, _)
ParseRegexp(p, i, items, lastRepeat) ==
    IF i > Len(p) THEN [ok |-> TRUE, re |-> items]
    ELSE
    LET c == p[i]
        n == Len(items)
    IN  CASE c \in {"*", "+", "?"} ->
                 IF lastRepeat \/ n = 0 THEN [ok |-> FALSE, re |-> <<>>]
                 ELSE LET rep == IF c = "*" THEN "star"
                                 ELSE IF c = "+" THEN "plus" ELSE "quest"
                          j == IF i < Len(p) /\ p[i + 1] = "?" THEN i + 2 ELSE i + 1
                      IN  ParseRegexp(p, j, [items EXCEPT ![n].rep = rep], TRUE)
          [] c = "." -> ParseRegexp(p, i + 1,
                            Append(items, [k |-> "any", a |-> c, rep |-> "one"]), FALSE)
          [] c = "^" -> ParseRegexp(p, i + 1,
                            Append(items, [k |-> "bol", a |-> c, rep |-> "one"]), FALSE)
          [] c = "$" -> ParseRegexp(p, i + 1,
                            Append(items, [k |-> "eol", a |-> c, rep |-> "one"]), FALSE)
          [] c = "\\" ->
                 IF i = Len(p) \/ EscapeItem(p[i + 1]).k = "bad"
                 THEN [ok |-> FALSE, re |-> <<>>]
                 ELSE ParseRegexp(p, i + 2, Append(items, EscapeItem(p[i + 1])), FALSE)
          [] c \in {"(", ")", "[", "]", "{", "}", "|"} ->
                 \* groups, classes, counted repetition and alternation are
                 \* outside the pattern alphabet of the model
                 [ok |-> FALSE, re |-> <<>>]
          [] OTHER -> ParseRegexp(p, i + 1,
                            Append(items, [k |-> "lit", a |-> c, rep |-> "one"]), FALSE)

\* regexp.Compile: [ok, re]; ok = FALSE is the error return
Compile(p) == ParseRegexp(p, 1, <<>>, FALSE)

\* a consuming atom accepts character c
Accepts(it, c) ==
    CASE it.k = "lit" -> c = it.a
      [] it.k = "any" -> c # "\n"
      [] it.k = "digit" -> c \in Digits
      [] it.k = "space" -> c \in WhiteSpace
      [] it.k = "word" -> c \in WordChars
      [] OTHER -> FALSE

\* an assertion holds in s before position j
Holds(it, s, j) ==
    CASE it.k = "bol" -> j = 1
      [] it.k = "eol" -> j = Len(s) + 1
      [] it.k = "wb" -> (j > 1 /\ s[j - 1] \in WordChars)
                        # (j <= Len(s) /\ s[j] \in WordChars)
      [] OTHER -> FALSE

\* the items re[k..] match a prefix of s[j..]
RECURSIVE MatchAt(_, _, _, _)
MatchAt(re, k, s, j) ==
    IF k > Len(re) THEN TRUE
    ELSE
    LET it == re[k]
        one == IF IsAssertion(it) THEN Holds(it, s, j)
               ELSE j <= Len(s) /\ Accepts(it, s[j])
        nj == IF IsAssertion(it) THEN j ELSE j + 1
    IN  CASE it.rep = "one" -> one /\ MatchAt(re, k + 1, s, nj)
          [] it.rep = "quest" -> MatchAt(re, k + 1, s, j)
                                 \/ (one /\ MatchAt(re, k + 1, s, nj))
          [] it.rep = "star" ->
                 \/ MatchAt(re, k + 1, s, j)
                 \/ (one /\ ~IsAssertion(it) /\ MatchAt(re, k, s, nj))
          [] it.rep = "plus" ->
                 one /\ MatchAt([re EXCEPT ![k].rep = "star"], k, s, nj)

\* (*Regexp).MatchString: the expression matches somewhere in s
MatchString(re, s) == \E j \in 1..(Len(s) + 1) : MatchAt(re, 1, s, j)

(***************************************************************************)
(* The exclusion matcher.  Every operator that may compile a pattern takes *)
(* the process-wide cache and returns [r, c]: its result and the cache it  *)
(* leaves.                                                                 *)
(***************************************************************************)

\* a call's result x, named once for what follows it, F
Then(x, F(_)) == F(x)

\* the cache size above which an insertion evicts first
CacheLimit == 100
\* the size an eviction stops at
CacheKeep == 50

\* containsSpecialChars
containsSpecialChars(pattern) ==
    ContainsAny(pattern, {".", "*", "+", "?", "^", "$", "{", "}", "(", ")", "[", "]", "|", "\\"})

\* containsRegexMetachars
containsRegexMetachars(pattern) ==
    \E i \in 1..Len(pattern) :
        pattern[i] \in {".", "^", "$", "+", "?", "[", "]", "(", ")", "{", "}", "|", "\\"}

\* the locked section of matchGlobPattern and matchRegexPattern: evict while
\* more than CacheLimit entries are held, until CacheKeep are left (the map's
\* iteration order decides which), then store the compiled expression
CacheStore(cache, key, re) ==
    LET kept == IF Cardinality(DOMAIN cache) > CacheLimit
                THEN CHOOSE K \in SUBSET (DOMAIN cache) : Cardinality(K) = CacheKeep
                ELSE DOMAIN cache
    IN  [k \in kept \cup {key} |-> IF k = key THEN re ELSE cache[k]]

\* the lookup, were an expression found in the cache to match nothing
CachedMatchStale(str, key, cache) ==
    IF key \in DOMAIN cache
    THEN [r |-> FALSE, c |-> cache]
    ELSE Then(Compile(key), LAMBDA cmp :
             IF ~cmp.ok THEN [r |-> FALSE, c |-> cache]
             ELSE [r |-> MatchString(cmp.re, str), c |-> CacheStore(cache, key, cmp.re)])

\* the lookup, were an expression that does not compile stored all the same
CachedMatchKeepsFailure(str, key, cache) ==
    IF key \in DOMAIN cache
    THEN [r |-> MatchString(cache[key], str), c |-> cache]
    ELSE Then(Compile(key), LAMBDA cmp :
             IF ~cmp.ok THEN [r |-> FALSE, c |-> CacheStore(cache, key, cmp.re)]
             ELSE [r |-> MatchString(cmp.re, str), c |-> CacheStore(cache, key, cmp.re)])

\* the lookup, compile and store both matchers share: a cached expression is
\* used as it is, an expression that does not compile matches nothing
CachedMatch(str, key, cache) ==
    IF key \in DOMAIN cache
    THEN [r |-> MatchString(cache[key], str), c |-> cache]
    ELSE Then(Compile(key), LAMBDA cmp :
             IF ~cmp.ok THEN [r |-> FALSE, c |-> cache]
             ELSE [r |-> MatchString(cmp.re, str), c |-> CacheStore(cache, key, cmp.re)])

\* the expression matchGlobPattern translates a glob to
GlobToRegexp(pattern) == <<"^">> \o ReplaceEscapedStar(QuoteMeta(pattern)) \o <<"$">>

\* matchGlobPattern
matchGlobPattern(str, pattern, cache) == CachedMatch(str, GlobToRegexp(pattern), cache)

\* matchRegexPattern
matchRegexPattern(str, pattern, cache) == CachedMatch(str, pattern, cache)

\* matchesPattern
matchesPattern(str, pattern, cache) ==
    IF str = pattern THEN [r |-> TRUE, c |-> cache]
    ELSE IF pattern = <<>> THEN [r |-> FALSE, c |-> cache]
    ELSE IF ~containsSpecialChars(pattern) THEN [r |-> Contains(str, pattern), c |-> cache]
    ELSE IF Contains(pattern, <<"*">>) /\ ~containsRegexMetachars(pattern)
         THEN matchGlobPattern(str, pattern, cache)
    ELSE matchRegexPattern(str, pattern, cache)

\* the loop, were it to return after its first pattern
MatchesFromFirstOnly(str, pats, i, cache) ==
    IF i > Len(pats) THEN [r |-> FALSE, c |-> cache]
    ELSE Then(TrimSpace(pats[i]), LAMBDA pattern :
             IF pattern # <<>> THEN matchesPattern(str, pattern, cache)
             ELSE [r |-> FALSE, c |-> cache])

\* the loop of matchesAnyPattern over the split patterns, from the i-th on
RECURSIVE MatchesFrom(_, _, _, _)
MatchesFrom(str, pats, i, cache) ==
    IF i > Len(pats) THEN [r |-> FALSE, c |-> cache]
    ELSE Then(Then(TrimSpace(pats[i]), LAMBDA pattern :
                  IF pattern # <<>> THEN matchesPattern(str, pattern, cache)
                  ELSE [r |-> FALSE, c |-> cache]),
              LAMBDA m : IF m.r THEN m ELSE MatchesFrom(str, pats, i + 1, m.c))

\* matchesAnyPattern
matchesAnyPattern(str, patterns, cache) ==
    IF patterns = <<>> THEN [r |-> FALSE, c |-> cache]
    ELSE IF ~Contains(patterns, <<",">>)
         THEN matchesPattern(str, TrimSpace(patterns), cache)
    ELSE MatchesFrom(str, Split(patterns), 1, cache)

\* shouldExcludePackage
shouldExcludePackage(pkgPath, config, cache) ==
    IF config.ExcludePackages = <<>> THEN [r |-> FALSE, c |-> cache]
    ELSE matchesAnyPattern(pkgPath, config.ExcludePackages, cache)

\* the bare file name, were only the forward slash a separator
JustFilenameSlashOnly(filename) ==
    SubSeq(filename, LastIndex(filename, "/") + 1, Len(filename))

\* the bare file name shouldExcludeFileWithConfig derives from a path
JustFilename(filename) ==
    LET afterSlash == SubSeq(filename, LastIndex(filename, "/") + 1, Len(filename))
    IN  SubSeq(afterSlash, LastIndex(afterSlash, "\\") + 1, Len(afterSlash))

\* shouldExcludeFileWithConfig
shouldExcludeFileWithConfig(filename, config, cache) ==
    IF config.ExcludeFiles = <<>> THEN [r |-> FALSE, c |-> cache]
    ELSE Then(matchesAnyPattern(filename, config.ExcludeFiles, cache), LAMBDA full :
             IF full.r THEN full
             ELSE matchesAnyPattern(JustFilename(filename), config.ExcludeFiles, full.c))

(***************************************************************************)
(* The syntax trees.  A file is [name, imports, decls]; an import is       *)
(* [path, alias] (alias "" when the import has no name); a declaration is  *)
(* a function [kind |-> "func", name, body] or a package-level variable    *)
(* whose value is a function literal [kind |-> "var", body]; a body is a   *)
(* sequence of statements [kind, x, sel]: "defer" for `defer x.sel(...)`   *)
(* and "call" for `x.sel(...)`.  A position is <<file index, declaration   *)
(* index>>.                                                                *)
(***************************************************************************)

goleakUberPath == "\"go.uber.org/goleak\""
goleakGithubPath == "\"github.com/uber-go/goleak\""
defaultAlias == "goleak"
verifyTestMain == "VerifyTestMain"
verifyNone == "VerifyNone"
testPrefix == <<"T", "e", "s", "t">>
testMainFunc == <<"T", "e", "s", "t", "M", "a", "i", "n">>
testFileSuffix == <<"_", "t", "e", "s", "t", ".", "g", "o">>

\* isTestFile
isTestFile(filename) == HasSuffix(filename, testFileSuffix)

\* isTestFunction
isTestFunction(name) == HasPrefix(name, testPrefix) /\ name # testMainFunc

\* isGoleakCall, were it to look for the default name only
isGoleakCallDefaultName(sel, method, alias) ==
    IF sel.sel # method THEN FALSE ELSE sel.x = defaultAlias

\* isGoleakCall, were it to know every name some file imports the library by
isGoleakCallAnyImport(sel, method, alias) ==
    IF sel.sel # method THEN FALSE ELSE sel.x \in {defaultAlias, "gl"}

\* isGoleakCall, for a selector expression x.sel whose x is an identifier
isGoleakCall(sel, method, alias) ==
    IF sel.sel # method THEN FALSE ELSE sel.x = alias

\* the nodes of one statement in the order ast.Inspect visits them: a defer
\* statement, then the call expression it holds
StmtNodes(st) ==
    IF st.kind = "defer"
    THEN <<[type |-> "DeferStmt", x |-> st.x, sel |-> st.sel],
           [type |-> "CallExpr", x |-> st.x, sel |-> st.sel]>>
    ELSE <<[type |-> "CallExpr", x |-> st.x, sel |-> st.sel]>>

RECURSIVE BodyNodes(_)
BodyNodes(body) ==
    IF body = <<>> THEN <<>> ELSE StmtNodes(Head(body)) \o BodyNodes(Tail(body))

\* the nodes of the declarations from the di-th on, in the order ast.Inspect
\* visits them; a function declaration is visited before its body
RECURSIVE DeclNodes(_, _, _)
DeclNodes(decls, fi, di) ==
    IF di > Len(decls) THEN <<>>
    ELSE LET d == decls[di]
             own == IF d.kind = "func"
                    THEN <<[type |-> "FuncDecl", name |-> d.name, pos |-> <<fi, di>>]>>
                    ELSE <<>>
         IN  own \o BodyNodes(d.body) \o DeclNodes(decls, fi, di + 1)

\* an analysisResult with nothing in it; funcsCoveredByDefer is the set of
\* the names the map holds (the code stores only true)
EmptyResult ==
    [hasTestMain |-> FALSE, hasVerifyTestMain |-> FALSE,
     testFuncs |-> <<>>, funcsCoveredByDefer |-> {}]

\* the callback, were TestMain to become the current function
VisitNodeMainIsCurrent(st, node, filename, alias) ==
    CASE node.type = "FuncDecl" ->
             IF node.name = testMainFunc
             THEN [res |-> [st.res EXCEPT !.hasTestMain = TRUE],
                   cur |-> node.name, inMain |-> TRUE]
             ELSE IF isTestFunction(node.name)
             THEN [res |-> [st.res EXCEPT !.testFuncs =
                              Append(@, [name |-> node.name, pos |-> node.pos,
                                         filename |-> filename])],
                   cur |-> node.name, inMain |-> FALSE]
             ELSE [res |-> st.res, cur |-> <<>>, inMain |-> FALSE]
      [] node.type = "CallExpr" ->
             IF st.inMain /\ isGoleakCall(node, verifyTestMain, alias)
             THEN [st EXCEPT !.res.hasVerifyTestMain = TRUE]
             ELSE st
      [] node.type = "DeferStmt" ->
             IF st.cur # <<>> /\ isGoleakCall(node, verifyNone, alias)
             THEN [st EXCEPT !.res.funcsCoveredByDefer = @ \cup {st.cur}]
             ELSE st

\* the callback processFileForAnalysis gives to ast.Inspect, on one node.
\* st is [res, cur, inMain]: the result so far, currentTestFunc (<<>> for
\* "") and inTestMain
VisitNode(st, node, filename, alias) ==
    CASE node.type = "FuncDecl" ->
             IF node.name = testMainFunc
             THEN [res |-> [st.res EXCEPT !.hasTestMain = TRUE],
                   cur |-> <<>>, inMain |-> TRUE]
             ELSE IF isTestFunction(node.name)
             THEN [res |-> [st.res EXCEPT !.testFuncs =
                              Append(@, [name |-> node.name, pos |-> node.pos,
                                         filename |-> filename])],
                   cur |-> node.name, inMain |-> FALSE]
             ELSE [res |-> st.res, cur |-> <<>>, inMain |-> FALSE]
      [] node.type = "CallExpr" ->
             IF st.inMain /\ isGoleakCall(node, verifyTestMain, alias)
             THEN [st EXCEPT !.res.hasVerifyTestMain = TRUE]
             ELSE st
      [] node.type = "DeferStmt" ->
             IF st.cur # <<>> /\ isGoleakCall(node, verifyNone, alias)
             THEN [st EXCEPT !.res.funcsCoveredByDefer = @ \cup {st.cur}]
             ELSE st

RECURSIVE Inspect(_, _, _, _, _)
Inspect(st, nodes, i, filename, alias) ==
    IF i > Len(nodes) THEN st
    ELSE Inspect(VisitNode(st, nodes[i], filename, alias), nodes, i + 1, filename, alias)

\* processFileForAnalysis, on the fi-th file of the unit
processFileForAnalysis(file, fi, alias) ==
    IF ~isTestFile(file.name) THEN EmptyResult
    ELSE Inspect([res |-> EmptyResult, cur |-> <<>>, inMain |-> FALSE],
                 DeclNodes(file.decls, fi, 1), 1, file.name, alias).res

\* mergeResults, were it to assign hasVerifyTestMain, not to or it
mergeResultsAssignsVerify(result, localResult) ==
    [hasTestMain |-> result.hasTestMain \/ localResult.hasTestMain,
     hasVerifyTestMain |-> localResult.hasVerifyTestMain,
     testFuncs |-> result.testFuncs \o localResult.testFuncs,
     funcsCoveredByDefer |->
         result.funcsCoveredByDefer \cup localResult.funcsCoveredByDefer]

\* mergeResults, were it to assign hasTestMain, not to or it
mergeResultsAssignsTestMain(result, localResult) ==
    [hasTestMain |-> localResult.hasTestMain,
     hasVerifyTestMain |-> result.hasVerifyTestMain \/ localResult.hasVerifyTestMain,
     testFuncs |-> result.testFuncs \o localResult.testFuncs,
     funcsCoveredByDefer |->
         result.funcsCoveredByDefer \cup localResult.funcsCoveredByDefer]

\* mergeResults, were it to keep the marks of the local result only
mergeResultsLocalMarks(result, localResult) ==
    [hasTestMain |-> result.hasTestMain \/ localResult.hasTestMain,
     hasVerifyTestMain |-> result.hasVerifyTestMain \/ localResult.hasVerifyTestMain,
     testFuncs |-> result.testFuncs \o localResult.testFuncs,
     funcsCoveredByDefer |-> localResult.funcsCoveredByDefer]

\* mergeResults, were it to put the first test function of the file before
\* those merged so far and the others after them
mergeResultsSplitsBlock(result, localResult) ==
    [hasTestMain |-> result.hasTestMain \/ localResult.hasTestMain,
     hasVerifyTestMain |-> result.hasVerifyTestMain \/ localResult.hasVerifyTestMain,
     testFuncs |-> IF localResult.testFuncs = <<>> THEN result.testFuncs
                   ELSE <<Head(localResult.testFuncs)>> \o result.testFuncs
                            \o Tail(localResult.testFuncs),
     funcsCoveredByDefer |->
         result.funcsCoveredByDefer \cup localResult.funcsCoveredByDefer]

\* mergeResults
mergeResults(result, localResult) ==
    [hasTestMain |-> result.hasTestMain \/ localResult.hasTestMain,
     hasVerifyTestMain |-> result.hasVerifyTestMain \/ localResult.hasVerifyTestMain,
     testFuncs |-> result.testFuncs \o localResult.testFuncs,
     funcsCoveredByDefer |->
         result.funcsCoveredByDefer \cup localResult.funcsCoveredByDefer]

\* the first import, were only one of the two paths known
FirstGoleakImportOnePath(file) ==
    LET hits == {i \in 1..Len(file.imports) : file.imports[i].path = goleakUberPath}
    IN  IF hits = {} THEN 0 ELSE CHOOSE i \in hits : \A j \in hits : i <= j

\* the first import of the goleak library in one file, 0 when it has none
FirstGoleakImport(file) ==
    LET hits == {i \in 1..Len(file.imports) :
                    file.imports[i].path \in {goleakUberPath, goleakGithubPath}}
    IN  IF hits = {} THEN 0 ELSE CHOOSE i \in hits : \A j \in hits : i <= j

\* getGoleakAlias
RECURSIVE AliasFrom(_, _)
AliasFrom(files, fi) ==
    IF fi > Len(files) THEN ""
    ELSE LET i == FirstGoleakImport(files[fi])
         IN  IF i = 0 THEN AliasFrom(files, fi + 1)
             ELSE IF files[fi].imports[i].alias # "" THEN files[fi].imports[i].alias
             ELSE defaultAlias

\* getGoleakAlias, were it to fall back on the default name
getGoleakAliasFallsBack(files) ==
    IF AliasFrom(files, 1) = "" THEN defaultAlias ELSE AliasFrom(files, 1)

getGoleakAlias(files) == AliasFrom(files, 1)

\* hasNonExcludedTestFiles: the loop from the fi-th file on
RECURSIVE NonExcludedFrom(_, _, _, _)
NonExcludedFrom(files, fi, config, cache) ==
    IF fi > Len(files) THEN [r |-> FALSE, c |-> cache]
    ELSE IF ~isTestFile(files[fi].name) THEN NonExcludedFrom(files, fi + 1, config, cache)
    ELSE Then(shouldExcludeFileWithConfig(files[fi].name, config, cache), LAMBDA ex :
             IF ~ex.r THEN [r |-> TRUE, c |-> ex.c]
             ELSE NonExcludedFrom(files, fi + 1, config, ex.c))

hasNonExcludedTestFiles(files, config, cache) == NonExcludedFrom(files, 1, config, cache)

\* the text pass.Reportf formats
Message(name, reason) ==
    <<"test function ", name, " is not covered by goleak (", reason, ")">>

ReasonNotImported == "goleak not imported"
ReasonMissingDefer == "missing defer goleak.VerifyNone(t)"
ReasonTestMain == "TestMain exists but doesn't call goleak.VerifyTestMain"

\* the function declarations of the unit in the order inspect.Preorder
\* visits them: file by file, in declaration order
RECURSIVE FuncDeclsFrom(_, _)
FuncDeclsFrom(files, fi) ==
    IF fi > Len(files) THEN <<>>
    ELSE SelectSeq(DeclNodes(files[fi].decls, fi, 1), LAMBDA n : n.type = "FuncDecl")
         \o FuncDeclsFrom(files, fi + 1)

FuncDecls(files) == FuncDeclsFrom(files, 1)

(***************************************************************************)
(* The inputs: files, units and configurations the analyzer is run on.     *)
(***************************************************************************)

\* the most workers a configuration asks for, and the most CPUs of the host
MaxWorkers == 2
\* the most runs of the analyzer on one unit
MaxRuns == 2
\* the most files of the units built from every sequence of library files
MaxSmall == 2

Imp(path, alias) == [path |-> path, alias |-> alias]
Func(name, body) == [kind |-> "func", name |-> name, body |-> body]
VarLit(body) == [kind |-> "var", body |-> body]
Defer(x, sel) == [kind |-> "defer", x |-> x, sel |-> sel]
Call(x, sel) == [kind |-> "call", x |-> x, sel |-> sel]
TestName(c) == testPrefix \o <<c>>

\* d/a_test.go: the library under its own name; TestA defers VerifyNone,
\* TestB does not
FileA ==
    [name |-> <<"d", "/", "a">> \o testFileSuffix,
     imports |-> <<Imp("\"testing\"", ""), Imp(goleakUberPath, "")>>,
     decls |-> <<Func(TestName("A"), <<Defer("goleak", verifyNone)>>),
                 Func(TestName("B"), <<Call("t", "Log")>>)>>]

\* d\b_test.go: the library as gl, from its other path, before an unnamed
\* import of it; TestC defers gl.VerifyNone, TestD defers goleak.VerifyNone
FileB ==
    [name |-> <<"d", "\\", "b">> \o testFileSuffix,
     imports |-> <<Imp(goleakGithubPath, "gl"), Imp(goleakUberPath, "")>>,
     decls |-> <<Func(TestName("C"), <<Defer("gl", verifyNone)>>),
                 Func(TestName("D"), <<Defer("goleak", verifyNone)>>)>>]

\* m_test.go: TestMain calls the hook; TestE is not covered on its own
FileM ==
    [name |-> <<"m">> \o testFileSuffix,
     imports |-> <<Imp(goleakUberPath, "")>>,
     decls |-> <<Func(testMainFunc, <<Call("goleak", verifyTestMain)>>),
                 Func(TestName("E"), <<>>)>>]

\* n_test.go: TestMain does not call the hook and defers VerifyNone; a
\* second TestB, which defers VerifyNone
FileN ==
    [name |-> <<"n">> \o testFileSuffix,
     imports |-> <<Imp(goleakUberPath, "")>>,
     decls |-> <<Func(testMainFunc, <<Defer("goleak", verifyNone), Call("m", "Run")>>),
                 Func(TestName("B"), <<Defer("goleak", verifyNone)>>)>>]

\* h.go: not a test file; no import
FileH ==
    [name |-> <<"h", ".", "g", "o">>,
     imports |-> <<>>,
     decls |-> <<Func(TestName("H"), <<>>),
                 Func(<<"h", "e", "l", "p">>, <<Defer("goleak", verifyNone)>>)>>]

\* p_test.go: no import; a TestMain and test functions, two of them with
\* the names of functions of a_test.go and q_test.go
FileP ==
    [name |-> <<"p">> \o testFileSuffix,
     imports |-> <<Imp("\"testing\"", "")>>,
     decls |-> <<Func(testMainFunc, <<Call("m", "Run")>>),
                 Func(TestName("P"), <<Defer("goleak", verifyNone)>>),
                 Func(TestName("A"), <<>>),
                 Func(TestName("R"), <<>>)>>]

\* q_test.go: function literals of package-level variables after a test
\* function and after a helper
FileQ ==
    [name |-> <<"q">> \o testFileSuffix,
     imports |-> <<Imp(goleakUberPath, "")>>,
     decls |-> <<Func(TestName("Q"), <<>>),
                 VarLit(<<Defer("goleak", verifyNone)>>),
                 Func(TestName("R"), <<>>),
                 Func(<<"h", "e", "l", "p">>, <<>>),
                 VarLit(<<Defer("goleak", verifyNone)>>)>>]

\* t_test.go: the only call of the hook in TestMain is deferred; TestT has
\* no defer
FileT ==
    [name |-> <<"t">> \o testFileSuffix,
     imports |-> <<Imp(goleakUberPath, "")>>,
     decls |-> <<Func(testMainFunc, <<Defer("goleak", verifyTestMain)>>),
                 Func(TestName("T"), <<>>)>>]

FileLibrary == {FileA, FileB, FileM, FileN, FileH, FileP, FileQ}

PkgPath == <<"p", "k", "/", "u">>

\* every sequence of at most MaxSmall different library files, which take
\* the sequential path, and some units of more than three files, which take
\* the parallel path
SmallUnits ==
    UNION {{u \in [1..n -> FileLibrary] : \A i, j \in 1..n : i # j => u[i] # u[j]} :
              n \in 0..MaxSmall}
LargeUnits ==
    {<<FileA, FileB, FileN, FileH>>,
     <<FileB, FileQ, FileA, FileP>>,
     <<FileH, FileA, FileM, FileQ>>}
\* the units with t_test.go, alone and before a_test.go
DeferredHookUnits == {<<FileT>>, <<FileT, FileA>>}
\* a unit with a worker for each file and more: one test file and three
\* files that are not
WideUnit == <<FileH, FileA, FileH, FileH>>
Units == SmallUnits \cup LargeUnits \cup {WideUnit}

\* the pattern lists of ExcludeFiles: none; two globs only bare file names
\* match; an expression only a path matches; a blank-padded list of
\* substrings; a file-name glob with a dot
NoPatterns == <<>>
BareNameGlob == <<"a", "*", ",", "b", "*">>
PathRegexp == <<"^", "d", "/">>
SubstringList == <<" ", "b", "_", " ", ",", ",", "n", "_", "t", ",", "p", "_", "t">>
DottedGlob == <<"*", "a", "_", "t", "e", "s", "t", ".", "g", "o">>
FilePatterns == {NoPatterns, BareNameGlob, PathRegexp, SubstringList, DottedGlob}

\* the pattern lists of ExcludePackages: none, one that excludes another
\* package, one that excludes this package
OtherPackage == <<"z", "z">>
ThisPackage == <<"^", "p", "k">>
PackagePatterns == {NoPatterns, OtherPackage, ThisPackage}

\* the patterns a second run adds to ExcludePackages: a substring, a glob and
\* an expression that match the package path, and a glob that does not
AddedPatterns == {<<"k", "/">>, <<"p", "*">>, <<"/", "u", "$">>, <<"k", "*">>}

\* the configurations a caller passes to NewWithConfig; Timeout is in minutes
RawConfig(xp, xf, n, t) ==
    [ExcludePackages |-> xp, ExcludeFiles |-> xf, Concurrency |-> n, Timeout |-> t]

\* the files above which analyzeTestFunctionsWithContext uses workers
ParallelThreshold == 3

\* the units with the configurations they are analyzed under; the last asks
\* for more workers than the unit has files
Inputs ==
    {<<u, RawConfig(NoPatterns, xf, n, 0)>> :
        u \in SmallUnits, xf \in FilePatterns, n \in {1}}
    \cup {<<u, RawConfig(xp, xf, MaxWorkers, 5)>> :
        u \in SmallUnits, xp \in {OtherPackage, ThisPackage},
        xf \in {BareNameGlob}}
    \cup {<<u, RawConfig(xp, xf, n, 0)>> :
        u \in LargeUnits, xp \in {NoPatterns},
        xf \in {PathRegexp}, n \in 0..MaxWorkers}
    \cup {<<WideUnit, RawConfig(NoPatterns, NoPatterns, ParallelThreshold + 2, 0)>>}
    \cup {<<u, RawConfig(NoPatterns, NoPatterns, 1, 0)>> : u \in DeferredHookUnits}

\* the default Timeout, in minutes
DefaultTimeout == 30

\* a nil *Config
NilConfig == [nil |-> TRUE]
IsNil(raw) == DOMAIN raw = {"nil"}

\* NewWithConfig, were it to replace negative values only
NewWithConfigKeepsZero(raw, numCPU) ==
    Then(IF IsNil(raw) THEN RawConfig(NoPatterns, NoPatterns, 0, 0) ELSE raw,
         LAMBDA c :
             [c EXCEPT !.Concurrency = IF c.Concurrency < 0 THEN numCPU ELSE @,
                       !.Timeout = IF c.Timeout < 0 THEN DefaultTimeout ELSE @])

\* NewWithConfig: the defaults it writes into the configuration, an empty
\* one for nil; numCPU is runtime.NumCPU()
NewWithConfig(raw, numCPU) ==
    Then(IF IsNil(raw) THEN RawConfig(NoPatterns, NoPatterns, 0, 0) ELSE raw,
         LAMBDA c :
             [c EXCEPT !.Concurrency = IF c.Concurrency <= 0 THEN numCPU ELSE @,
                       !.Timeout = IF c.Timeout <= 0 THEN DefaultTimeout ELSE @])

(***************************************************************************)
(* The state.                                                              *)
(***************************************************************************)

VARIABLES
    unit,         \* pass.Files, the files of the unit
    config,       \* the Config the analyzer was built with
    regexCache,   \* the process-wide cache: pattern text -> compiled expression
    pc,           \* where run is: "start", "analyze", "acquire", "preorder",
                  \* "sequential", "parallel", "report", "done"
    ctxDone,      \* the deadline of this run's context has passed
    goleakAlias,  \* run's goleakAlias
    result,       \* the analysisResult the scheduler builds and run reads
    idx,          \* the index of the loop run is in
    semaphore,    \* the number of slots of the semaphore that are taken
    reports,      \* the diagnostics given to pass.Reportf, in order
    err,          \* the error run returned: "nil" or "deadline"
    fileChan,     \* the files (indices) left in fileChan
    wpc,          \* each worker's position: "off", "pull", "check", "lock",
                  \* "merge", "unlock", "done"
    wfile,        \* the file each worker pulled
    wlocal,       \* each worker's localResult
    mu,           \* the worker that holds mu, 0 when free
    errChan,      \* the errors buffered in errChan
    errClosed,    \* errChan is closed
    runNo,        \* the number of this run on the unit
    prevDiags,    \* the diagnostics of the run before, as a set
    added,        \* the pattern added to ExcludePackages for this run
    candidate,    \* the text of the last direct call of the matcher
    tried,        \* the pattern, or the pattern list, of that call
    outcome,      \* that call: the function called, what it returned and
                  \* the cache it found
    regexMutex,   \* regexMutex: 0 when free, else the goroutine that holds it
                  \* for writing
    others,       \* the entries of regexCache under keys no lookup of the
                  \* model asks for again
    lpc,          \* where each goroutine is in its lookup
    lkey,         \* the key it looks up
    lfound        \* the size of the cache it found when it took the lock

vars == <<unit, config, regexCache, pc, ctxDone, goleakAlias, result, idx,
          semaphore, reports, err, fileChan, wpc, wfile, wlocal, mu, errChan,
          errClosed, runNo, prevDiags, added, candidate, tried, outcome,
          regexMutex, others, lpc, lkey, lfound>>

\* the lookups of concurrent goroutines in the cache
lookupVars == <<regexMutex, others, lpc, lkey, lfound>>
\* what a direct call of the matcher leaves behind, and the lookups
callVars == <<candidate, tried, outcome, lookupVars>>
inputVars == <<unit, config, runNo, prevDiags, added, callVars>>
workerVars == <<fileChan, wpc, wfile, wlocal, mu, errChan, errClosed>>

\* the workers: as many as the files of the largest unit, which is one file
\* above the threshold
Workers == 1..(ParallelThreshold + 1)
NoPattern == <<",">>

\* no direct call of the matcher has been made
NoCall ==
    /\ candidate = <<>>
    /\ tried = <<>>
    /\ outcome = [fn |-> "none", r |-> FALSE, before |-> <<>>]

\* the goroutines that look patterns up concurrently
MaxLookups == 2
Lookups == 1..MaxLookups

\* no goroutine is in a lookup
NoLookup ==
    /\ regexMutex = 0
    /\ others = 0
    /\ lpc = [g \in Lookups |-> "idle"]
    /\ lkey = [g \in Lookups |-> <<>>]
    /\ lfound = [g \in Lookups |-> 0]

\* the state of a run that has not started
Fresh ==
    /\ pc = "start"
    /\ ctxDone = FALSE
    /\ goleakAlias = ""
    /\ result = EmptyResult
    /\ idx = 0
    /\ semaphore = 0
    /\ reports = <<>>
    /\ err = "nil"
    /\ fileChan = <<>>
    /\ wpc = [w \in Workers |-> "off"]
    /\ wfile = [w \in Workers |-> 0]
    /\ wlocal = [w \in Workers |-> EmptyResult]
    /\ mu = 0
    /\ errChan = <<>>
    /\ errClosed = FALSE

Init ==
    /\ \E in \in Inputs, numCPU \in 1..MaxWorkers :
           /\ unit = in[1]
           /\ config = NewWithConfig(in[2], numCPU)
    /\ regexCache = <<>>
    /\ runNo = 1
    /\ prevDiags = {}
    /\ added = NoPattern
    /\ Fresh
    /\ NoCall
    /\ NoLookup

(***************************************************************************)
(* run: the analysis of one unit.                                          *)
(***************************************************************************)

\* run returns e to the host; the deferred release of the semaphore runs
Return(e) ==
    /\ pc' = "done"
    /\ err' = e
    /\ semaphore' = 0

\* the deadline of the run's context passes (the context always has one:
\* NewWithConfig leaves Timeout > 0)
Deadline ==
    /\ pc # "done"
    /\ config.Timeout > 0
    /\ ~ctxDone
    /\ ctxDone' = TRUE
    /\ UNCHANGED <<inputVars, workerVars, regexCache, pc, goleakAlias, result,
                   idx, semaphore, reports, err>>

\* run, from its start to the choice of the path: no file, the deadline, an
\* excluded package, no test file left, the library not imported
RunStart ==
    /\ pc = "start"
    /\ \E xp \in {shouldExcludePackage(PkgPath, config, regexCache)} :
       \E xf \in {hasNonExcludedTestFiles(unit, config, xp.c)} :
       \E alias \in {getGoleakAlias(unit)} :
           IF Len(unit) = 0
           THEN Return("nil") /\ UNCHANGED <<regexCache, goleakAlias>>
           ELSE IF ctxDone
           THEN Return("deadline") /\ UNCHANGED <<regexCache, goleakAlias>>
           ELSE IF xp.r
           THEN Return("nil") /\ regexCache' = xp.c /\ UNCHANGED goleakAlias
           ELSE IF ~xf.r
           THEN Return("nil") /\ regexCache' = xf.c /\ UNCHANGED goleakAlias
           ELSE /\ regexCache' = xf.c
                /\ goleakAlias' = alias
                /\ pc' = IF alias = "" THEN "acquire" ELSE "analyze"
                /\ UNCHANGED <<err, semaphore>>
    /\ UNCHANGED <<inputVars, workerVars, ctxDone, result, idx, reports>>

\* what run does with the scheduler's result: nothing when TestMain calls
\* the hook, else the loop over the test functions
AfterAnalysis(res) ==
    IF (res.hasTestMain /\ res.hasVerifyTestMain) \/ res.testFuncs = <<>>
    THEN Return("nil") /\ idx' = 0
    ELSE pc' = "report" /\ idx' = 1 /\ UNCHANGED <<err, semaphore>>

\* the worker count of the parallel path
workerCount == Min(config.Concurrency, Len(unit))

\* run's second look at the deadline, and the start of the scheduler: the
\* sequential loop, or the queue of files and the workers
RunAnalyze ==
    /\ pc = "analyze"
    /\ IF ctxDone
       THEN Return("deadline") /\ UNCHANGED <<workerVars, result, idx>>
       ELSE IF Len(unit) <= ParallelThreshold
       THEN /\ pc' = "sequential"
            /\ idx' = 1
            /\ result' = EmptyResult
            /\ UNCHANGED <<workerVars, err, semaphore>>
       ELSE /\ pc' = "parallel"
            /\ result' = EmptyResult
            /\ fileChan' = [i \in 1..Len(unit) |-> i]
            /\ wpc' = [w \in Workers |-> IF w <= workerCount THEN "pull" ELSE "off"]
            /\ UNCHANGED <<wfile, wlocal, mu, errChan, errClosed, idx, err, semaphore>>
    /\ UNCHANGED <<inputVars, regexCache, ctxDone, goleakAlias, reports>>

\* analyzeTestFunctionsSequential when no deadline passes: the result of
\* its loop from the fi-th file on, res being the result so far
RECURSIVE SequentialFrom(_, _, _, _)
SequentialFrom(files, fi, alias, res) ==
    IF fi > Len(files) THEN res
    ELSE SequentialFrom(files, fi + 1, alias,
             mergeResults(res, processFileForAnalysis(files[fi], fi, alias)))

\* analyzeTestFunctionsSequential: one turn of its loop; after the last file
\* it returns the result to run
SequentialStep ==
    /\ pc = "sequential"
    /\ IF ctxDone
       THEN Return("deadline") /\ UNCHANGED <<result, idx>>
       ELSE \E merged \in {mergeResults(result,
                              processFileForAnalysis(unit[idx], idx, goleakAlias))} :
                /\ result' = merged
                /\ IF idx < Len(unit)
                   THEN idx' = idx + 1 /\ UNCHANGED <<pc, err, semaphore>>
                   ELSE AfterAnalysis(merged)
    /\ UNCHANGED <<inputVars, workerVars, regexCache, ctxDone, goleakAlias, reports>>

\* the reason, were the two cases the other way round
ReasonSwapped(res) ==
    IF res.hasTestMain /\ ~res.hasVerifyTestMain THEN ReasonMissingDefer
    ELSE ReasonTestMain

\* the reason run gives for a function the result does not cover
Reason(res) ==
    IF res.hasTestMain /\ ~res.hasVerifyTestMain THEN ReasonTestMain
    ELSE ReasonMissingDefer

\* the body of run's loop, were the reason of a TestMain without the hook
\* given to the functions of the first file only
ReportOfReasonByFile(testFunc, res, config0, cache) ==
    Then(IF testFunc.name \in res.funcsCoveredByDefer THEN [r |-> TRUE, c |-> cache]
         ELSE shouldExcludeFileWithConfig(testFunc.filename, config0, cache),
         LAMBDA ex :
             [emit |-> ~ex.r,
              report |-> [pos |-> testFunc.pos,
                          msg |-> Message(testFunc.name,
                                          IF testFunc.pos[1] = 1 THEN Reason(res)
                                          ELSE ReasonMissingDefer)],
              c |-> ex.c])

\* the body of run's loop over result.testFuncs, for one test function:
\* [emit, report, c], the diagnostic it reports, if any, and the cache it
\* leaves
ReportOf(testFunc, res, config0, cache) ==
    Then(IF testFunc.name \in res.funcsCoveredByDefer THEN [r |-> TRUE, c |-> cache]
         ELSE shouldExcludeFileWithConfig(testFunc.filename, config0, cache),
         LAMBDA ex :
             [emit |-> ~ex.r,
              report |-> [pos |-> testFunc.pos,
                          msg |-> Message(testFunc.name, Reason(res))],
              c |-> ex.c])

\* run's loop over result.testFuncs when no deadline passes: the diagnostics
\* it reports from the i-th test function on, after those of acc
RECURSIVE ReportLoop(_, _, _, _, _)
ReportLoop(res, i, config0, cache, acc) ==
    IF i > Len(res.testFuncs) THEN acc
    ELSE Then(ReportOf(res.testFuncs[i], res, config0, cache), LAMBDA out :
             ReportLoop(res, i + 1, config0, out.c,
                        IF out.emit THEN Append(acc, out.report) ELSE acc))

\* run's loop over result.testFuncs: one turn
ReportStep ==
    /\ pc = "report"
    /\ IF ctxDone
       THEN Return("deadline") /\ UNCHANGED <<idx, reports, regexCache>>
       ELSE \E out \in {ReportOf(result.testFuncs[idx], result, config, regexCache)} :
                /\ regexCache' = out.c
                /\ reports' = IF out.emit THEN Append(reports, out.report) ELSE reports
                /\ IF idx < Len(result.testFuncs)
                   THEN idx' = idx + 1 /\ UNCHANGED <<pc, err, semaphore>>
                   ELSE Return("nil") /\ idx' = 0
    /\ UNCHANGED <<inputVars, workerVars, ctxDone, goleakAlias, result>>

\* reportUncoveredTestFunctionsWithContext: the select on the deadline and
\* the semaphore
AcquireSemaphore ==
    /\ pc = "acquire"
    /\ \/ /\ ctxDone
          /\ Return("deadline")
          /\ UNCHANGED idx
       \/ /\ semaphore < config.Concurrency
          /\ IF FuncDecls(unit) = <<>>
             THEN Return("nil") /\ UNCHANGED idx
             ELSE pc' = "preorder" /\ idx' = 1 /\ semaphore' = semaphore + 1
                  /\ UNCHANGED err
    /\ UNCHANGED <<inputVars, workerVars, regexCache, ctxDone, goleakAlias,
                   result, reports>>

\* reportUncoveredTestFunctionsWithContext: the callback of inspect.Preorder
\* on one function declaration; after the last one, the return of nil
PreorderStep ==
    /\ pc = "preorder"
    /\ \E fd \in {FuncDecls(unit)[idx]} :
       \E ex \in {IF ~ctxDone /\ isTestFunction(fd.name)
                   THEN shouldExcludeFileWithConfig(unit[fd.pos[1]].name, config, regexCache)
                   ELSE [r |-> TRUE, c |-> regexCache]} :
           /\ regexCache' = ex.c
           /\ reports' = IF ~ex.r
                         THEN Append(reports,
                                     [pos |-> fd.pos,
                                      msg |-> Message(fd.name, ReasonNotImported)])
                         ELSE reports
           /\ IF idx < Len(FuncDecls(unit))
              THEN idx' = idx + 1 /\ UNCHANGED <<pc, err, semaphore>>
              ELSE Return("nil") /\ idx' = 0
    /\ UNCHANGED <<inputVars, workerVars, ctxDone, goleakAlias, result>>

(***************************************************************************)
(* analyzeTestFunctionsWithContext: the workers, the goroutine that closes *)
(* errChan, and the select of the caller.                                  *)
(***************************************************************************)

mainVars == <<regexCache, pc, ctxDone, goleakAlias, idx, semaphore, reports, err>>

\* the worker's pull, were it to leave the file in the queue
WorkerPullLeaves(w) ==
    /\ wpc[w] = "pull"
    /\ IF fileChan = <<>>
       THEN /\ wpc' = [wpc EXCEPT ![w] = "done"]
            /\ UNCHANGED <<fileChan, wfile>>
       ELSE /\ wfile' = [wfile EXCEPT ![w] = Head(fileChan)]
            /\ UNCHANGED fileChan
            /\ wpc' = [wpc EXCEPT ![w] = "check"]
    /\ UNCHANGED <<inputVars, mainVars, result, wlocal, mu, errChan, errClosed>>

\* `for file := range fileChan`: the next file, or the end of the worker
\* when the closed channel is empty
WorkerPull(w) ==
    /\ wpc[w] = "pull"
    /\ IF fileChan = <<>>
       THEN /\ wpc' = [wpc EXCEPT ![w] = "done"]
            /\ UNCHANGED <<fileChan, wfile>>
       ELSE /\ wfile' = [wfile EXCEPT ![w] = Head(fileChan)]
            /\ fileChan' = Tail(fileChan)
            /\ wpc' = [wpc EXCEPT ![w] = "check"]
    /\ UNCHANGED <<inputVars, mainVars, result, wlocal, mu, errChan, errClosed>>

\* the worker's look at the deadline, were it to end without the send
WorkerCheckNoSend(w) ==
    /\ wpc[w] = "check"
    /\ IF ctxDone
       THEN /\ wpc' = [wpc EXCEPT ![w] = "done"]
            /\ wfile' = [wfile EXCEPT ![w] = 0]
            /\ UNCHANGED <<wlocal, errChan>>
       ELSE /\ wlocal' = [wlocal EXCEPT ![w] =
                             processFileForAnalysis(unit[wfile[w]], wfile[w], goleakAlias)]
            /\ wpc' = [wpc EXCEPT ![w] = "lock"]
            /\ UNCHANGED <<errChan, wfile>>
    /\ UNCHANGED <<inputVars, mainVars, result, fileChan, mu, errClosed>>

\* the worker's look at the deadline, were its send on errChan to wait for a
\* free slot
WorkerCheckBlockingSend(w) ==
    /\ wpc[w] = "check"
    /\ IF ctxDone
       THEN /\ Len(errChan) < 1
            /\ errChan' = Append(errChan, "deadline")
            /\ wpc' = [wpc EXCEPT ![w] = "done"]
            /\ wfile' = [wfile EXCEPT ![w] = 0]
            /\ UNCHANGED wlocal
       ELSE /\ wlocal' = [wlocal EXCEPT ![w] =
                             processFileForAnalysis(unit[wfile[w]], wfile[w], goleakAlias)]
            /\ wpc' = [wpc EXCEPT ![w] = "lock"]
            /\ UNCHANGED <<errChan, wfile>>
    /\ UNCHANGED <<inputVars, mainVars, result, fileChan, mu, errClosed>>

\* the worker's look at the deadline: past it, a send on errChan that does
\* not block, and the end of the worker; else the extraction of the file
WorkerCheck(w) ==
    /\ wpc[w] = "check"
    /\ IF ctxDone
       THEN /\ errChan' = IF Len(errChan) < 1 THEN Append(errChan, "deadline")
                          ELSE errChan
            /\ wpc' = [wpc EXCEPT ![w] = "done"]
            /\ wfile' = [wfile EXCEPT ![w] = 0]
            /\ UNCHANGED wlocal
       ELSE /\ wlocal' = [wlocal EXCEPT ![w] =
                             processFileForAnalysis(unit[wfile[w]], wfile[w], goleakAlias)]
            /\ wpc' = [wpc EXCEPT ![w] = "lock"]
            /\ UNCHANGED <<errChan, wfile>>
    /\ UNCHANGED <<inputVars, mainVars, result, fileChan, mu, errClosed>>

\* mu.Lock(), were it not to wait for the worker that holds mu
WorkerLockNoWait(w) ==
    /\ wpc[w] = "lock"
    /\ mu' = w
    /\ wpc' = [wpc EXCEPT ![w] = "merge"]
    /\ UNCHANGED <<inputVars, mainVars, result, fileChan, wfile, wlocal, errChan, errClosed>>

\* mu.Lock()
WorkerLock(w) ==
    /\ wpc[w] = "lock"
    /\ mu = 0
    /\ mu' = w
    /\ wpc' = [wpc EXCEPT ![w] = "merge"]
    /\ UNCHANGED <<inputVars, mainVars, result, fileChan, wfile, wlocal, errChan, errClosed>>

\* mergeResults(result, localResult)
WorkerMerge(w) ==
    /\ wpc[w] = "merge"
    /\ result' = mergeResults(result, wlocal[w])
    /\ wpc' = [wpc EXCEPT ![w] = "unlock"]
    /\ wlocal' = [wlocal EXCEPT ![w] = EmptyResult]
    /\ wfile' = [wfile EXCEPT ![w] = 0]
    /\ UNCHANGED <<inputVars, mainVars, fileChan, mu, errChan, errClosed>>

\* mu.Unlock()
WorkerUnlock(w) ==
    /\ wpc[w] = "unlock"
    /\ mu' = 0
    /\ wpc' = [wpc EXCEPT ![w] = "pull"]
    /\ UNCHANGED <<inputVars, mainVars, result, fileChan, wfile, wlocal, errChan, errClosed>>

\* every worker the scheduler started has returned
WorkersDone == \A w \in Workers : wpc[w] \in {"off", "done"}

\* the goroutine `wg.Wait(); close(errChan)`
CloseErrChan ==
    /\ \E w \in Workers : wpc[w] = "done"
    /\ WorkersDone
    /\ ~errClosed
    /\ errClosed' = TRUE
    /\ UNCHANGED <<inputVars, mainVars, result, fileChan, wpc, wfile, wlocal, mu, errChan>>

\* the select of analyzeTestFunctionsWithContext: an error from errChan, nil
\* from the closed errChan (the result goes to run), or the deadline
SchedulerSelect ==
    /\ pc = "parallel"
    /\ \/ /\ errChan # <<>>
          /\ errChan' = Tail(errChan)
          /\ Return(Head(errChan))
          /\ UNCHANGED idx
       \/ /\ errChan = <<>>
          /\ errClosed
          /\ AfterAnalysis(result)
          /\ UNCHANGED errChan
       \/ /\ ctxDone
          /\ Return("deadline")
          /\ UNCHANGED <<idx, errChan>>
    /\ UNCHANGED <<inputVars, regexCache, ctxDone, goleakAlias, result, reports,
                   fileChan, wpc, wfile, wlocal, mu, errClosed>>

(***************************************************************************)
(* The host runs the analyzer again on the same unit.                      *)
(***************************************************************************)

\* the {position, function name, message} of the diagnostics reported
Diagnostics(rs) ==
    {[pos |-> rs[i].pos, name |-> rs[i].msg[2], msg |-> rs[i].msg] : i \in 1..Len(rs)}

\* ExcludePackages with one more pattern
AddPattern(patterns, p) ==
    IF patterns = <<>> THEN p ELSE patterns \o <<",">> \o p

\* a run that met no deadline is over, and its workers with it
RunOver ==
    /\ pc = "done"
    /\ ~ctxDone
    /\ WorkersDone
    /\ runNo < MaxRuns

\* the next run starts, with the cache as the last one left it
StartNext ==
    /\ runNo' = runNo + 1
    /\ prevDiags' = Diagnostics(reports)
    /\ pc' = "start"
    /\ ctxDone' = FALSE
    /\ goleakAlias' = ""
    /\ result' = EmptyResult
    /\ idx' = 0
    /\ semaphore' = 0
    /\ reports' = <<>>
    /\ err' = "nil"
    /\ fileChan' = <<>>
    /\ wpc' = [w \in Workers |-> "off"]
    /\ wfile' = [w \in Workers |-> 0]
    /\ wlocal' = [w \in Workers |-> EmptyResult]
    /\ mu' = 0
    /\ errChan' = <<>>
    /\ errClosed' = FALSE
    /\ UNCHANGED <<unit, regexCache, callVars>>

\* a second run with the same configuration
RunAgain ==
    /\ RunOver
    /\ StartNext
    /\ UNCHANGED <<config, added>>

\* a later run with one more pattern in ExcludePackages; the host adds a
\* pattern once
RunAgainExcluding(p) ==
    /\ RunOver
    /\ added = NoPattern
    /\ StartNext
    /\ config' = [config EXCEPT !.ExcludePackages = AddPattern(@, p)]
    /\ added' = p

Next ==
    \/ Deadline
    \/ RunStart
    \/ RunAnalyze
    \/ SequentialStep
    \/ ReportStep
    \/ AcquireSemaphore
    \/ PreorderStep
    \/ \E w \in Workers : WorkerPull(w)
    \/ \E w \in Workers : WorkerCheck(w)
    \/ \E w \in Workers : WorkerLock(w)
    \/ \E w \in Workers : WorkerMerge(w)
    \/ \E w \in Workers : WorkerUnlock(w)
    \/ CloseErrChan
    \/ SchedulerSelect
    \/ RunAgain
    \/ \E p \in AddedPatterns : RunAgainExcluding(p)

Spec == Init /\ [][Next]_vars

(***************************************************************************)
(* The matcher called on its own: matchesPattern and matchesAnyPattern on  *)
(* a candidate and a pattern, over the process-wide cache that earlier     *)
(* calls have left.  No run is in progress.                                *)
(***************************************************************************)

\* the candidates of the direct calls
Candidates ==
    { <<>>,
      <<"a", "b">>,
      <<"x", "a", "b">>,
      <<"a", ".", "b">>,
      <<"a", "x", "b">>,
      <<"a", "*">>,
      <<"a", "\n", "b">> }

\* the single patterns: empty, plain, globs, regular expressions, and two
\* that do not compile
SinglePatterns ==
    { <<>>,
      <<"a", "b">>,
      <<"b">>,
      <<"a", "*">>,
      <<"*", "b">>,
      <<"a", "*", "b">>,
      <<"a", ".", "b">>,
      <<"^", "a">>,
      <<"b", "$">>,
      <<"x", "?", "a">>,
      <<"*", "a", ".", "b">>,
      <<"a", "\\">> }

\* the pattern lists: empty, blank, padded, and lists of several patterns
PatternLists ==
    { <<>>,
      <<" ">>,
      <<",">>,
      <<" ", ",", " ">>,
      <<" ", "a", "b", " ">>,
      <<"x", ",", "*", "b">>,
      <<"*", "a", ".", "b">>,
      <<"*", "a", ".", "b", ",", "b", "$">>,
      <<"z", ",", " ", "a", "*", "b">> }

\* direct calls are made while the cache holds at most this many expressions
MaxCached == 2

\* everything but the cache and the record of the last direct call
runVars == <<unit, config, runNo, prevDiags, added, pc, ctxDone, goleakAlias,
             result, idx, semaphore, reports, err, workerVars>>

MatchInit ==
    /\ unit = <<>>
    /\ config = NewWithConfig(RawConfig(NoPatterns, NoPatterns, 0, 0), 1)
    /\ regexCache = <<>>
    /\ runNo = 1
    /\ prevDiags = {}
    /\ added = NoPattern
    /\ Fresh
    /\ NoCall
    /\ NoLookup

\* matchesPattern(str, pattern)
CallMatchesPattern(str, pattern) ==
    /\ Cardinality(DOMAIN regexCache) <= MaxCached
    /\ \E m \in {matchesPattern(str, pattern, regexCache)} :
           /\ outcome' = [fn |-> "matchesPattern", r |-> m.r, before |-> regexCache]
           /\ regexCache' = m.c
    /\ candidate' = str
    /\ tried' = pattern
    /\ UNCHANGED <<runVars, lookupVars>>

\* matchesAnyPattern(str, patterns)
CallMatchesAnyPattern(str, list) ==
    /\ Cardinality(DOMAIN regexCache) <= MaxCached
    /\ \E m \in {matchesAnyPattern(str, list, regexCache)} :
           /\ outcome' = [fn |-> "matchesAnyPattern", r |-> m.r, before |-> regexCache]
           /\ regexCache' = m.c
    /\ candidate' = str
    /\ tried' = list
    /\ UNCHANGED <<runVars, lookupVars>>

MatchNext ==
    \/ \E str \in Candidates, pattern \in SinglePatterns : CallMatchesPattern(str, pattern)
    \/ \E str \in Candidates, list \in PatternLists : CallMatchesAnyPattern(str, list)

MatchSpec == MatchInit /\ [][MatchNext]_vars

(***************************************************************************)
(* Lookups in the process-wide cache by goroutines of any units, step by   *)
(* step: the read under the read lock, the compilation outside any lock,   *)
(* and the eviction and the store under the write lock.                    *)
(***************************************************************************)

\* a key no lookup has used before: a pattern of some other unit
UnseenKey == <<"unseen">>

\* the lookups: the matcher called and its pattern; the third pattern is
\* the translation of the first and shares its key, the fourth does not
\* compile
LookupCalls ==
    { [fn |-> "matchGlobPattern", pattern |-> <<"a", "*">>],
      [fn |-> "matchRegexPattern", pattern |-> <<"^", "a">>],
      [fn |-> "matchRegexPattern", pattern |-> <<"^", "a", ".", "*", "$">>],
      [fn |-> "matchRegexPattern", pattern |-> <<"*", "a">>],
      [fn |-> "matchGlobPattern", pattern |-> UnseenKey],
      [fn |-> "matchRegexPattern", pattern |-> UnseenKey] }

\* the key a lookup uses: the translated glob, or the pattern itself
KeyOf(call) ==
    IF call.pattern = UnseenKey THEN UnseenKey
    ELSE IF call.fn = "matchGlobPattern" THEN GlobToRegexp(call.pattern)
    ELSE call.pattern

\* len(regexCache)
CacheSize == Cardinality(DOMAIN regexCache) + others

\* regexMutex.RLock(); re, ok := regexCache[key]; regexMutex.RUnlock()
LookupRead(g, call) ==
    /\ lpc[g] = "idle"
    /\ regexMutex = 0
    /\ IF KeyOf(call) \in DOMAIN regexCache
       THEN UNCHANGED <<lpc, lkey>>
       ELSE /\ lpc' = [lpc EXCEPT ![g] = "compile"]
            /\ lkey' = [lkey EXCEPT ![g] = KeyOf(call)]
    /\ UNCHANGED <<regexCache, regexMutex, others, lfound, candidate, tried, outcome, runVars>>

\* regexp.Compile(key); an error ends the lookup
LookupCompile(g) ==
    /\ lpc[g] = "compile"
    /\ \E ok \in IF lkey[g] = UnseenKey THEN BOOLEAN ELSE {Compile(lkey[g]).ok} :
           IF ok
           THEN /\ lpc' = [lpc EXCEPT ![g] = "lock"]
                /\ UNCHANGED lkey
           ELSE /\ lpc' = [lpc EXCEPT ![g] = "idle"]
                /\ lkey' = [lkey EXCEPT ![g] = <<>>]
    /\ UNCHANGED <<regexCache, regexMutex, others, lfound, candidate, tried, outcome, runVars>>

\* regexMutex.Lock(), were it not to wait for the goroutine that holds it
LookupLockNoWait(g) ==
    /\ lpc[g] = "lock"
    /\ regexMutex' = g
    /\ lfound' = [lfound EXCEPT ![g] = CacheSize]
    /\ lpc' = [lpc EXCEPT ![g] = "evict"]
    /\ UNCHANGED <<regexCache, others, lkey, candidate, tried, outcome, runVars>>

\* regexMutex.Lock()
LookupLock(g) ==
    /\ lpc[g] = "lock"
    /\ regexMutex = 0
    /\ regexMutex' = g
    /\ lfound' = [lfound EXCEPT ![g] = CacheSize]
    /\ lpc' = [lpc EXCEPT ![g] = "evict"]
    /\ UNCHANGED <<regexCache, others, lkey, candidate, tried, outcome, runVars>>

\* if len(regexCache) > 100: delete in the map's order until 50 are left;
\* the order decides which entries are left
LookupEvict(g) ==
    /\ lpc[g] = "evict"
    /\ IF CacheSize > CacheLimit
       THEN \E K \in SUBSET (DOMAIN regexCache) :
                /\ CacheKeep - Cardinality(K) \in 0..others
                /\ regexCache' = [k \in K |-> regexCache[k]]
                /\ others' = CacheKeep - Cardinality(K)
       ELSE UNCHANGED <<regexCache, others>>
    /\ lpc' = [lpc EXCEPT ![g] = "store"]
    /\ UNCHANGED <<regexMutex, lkey, lfound, candidate, tried, outcome, runVars>>

\* regexCache[key] = re, were re the expression of another pattern
LookupStoreOtherExpression(g) ==
    /\ lpc[g] = "store"
    /\ IF lkey[g] = UnseenKey
       THEN /\ others' = others + 1
            /\ UNCHANGED regexCache
       ELSE /\ regexCache' = [k \in DOMAIN regexCache \cup {lkey[g]} |->
                                 IF k = lkey[g] THEN Compile(<<"^", "a">>).re
                                 ELSE regexCache[k]]
            /\ UNCHANGED others
    /\ lpc' = [lpc EXCEPT ![g] = "unlock"]
    /\ UNCHANGED <<regexMutex, lkey, lfound, candidate, tried, outcome, runVars>>

\* regexCache[key] = re
LookupStore(g) ==
    /\ lpc[g] = "store"
    /\ IF lkey[g] = UnseenKey
       THEN /\ others' = others + 1
            /\ UNCHANGED regexCache
       ELSE /\ regexCache' = [k \in DOMAIN regexCache \cup {lkey[g]} |->
                                 IF k = lkey[g] THEN Compile(lkey[g]).re
                                 ELSE regexCache[k]]
            /\ UNCHANGED others
    /\ lpc' = [lpc EXCEPT ![g] = "unlock"]
    /\ UNCHANGED <<regexMutex, lkey, lfound, candidate, tried, outcome, runVars>>

\* regexMutex.Unlock(); the lookup returns re.MatchString(str)
LookupUnlock(g) ==
    /\ lpc[g] = "unlock"
    /\ regexMutex' = 0
    /\ lpc' = [lpc EXCEPT ![g] = "idle"]
    /\ lkey' = [lkey EXCEPT ![g] = <<>>]
    /\ lfound' = [lfound EXCEPT ![g] = 0]
    /\ UNCHANGED <<regexCache, others, candidate, tried, outcome, runVars>>

CacheNext ==
    \/ \E g \in Lookups, call \in LookupCalls : LookupRead(g, call)
    \/ \E g \in Lookups : LookupCompile(g)
    \/ \E g \in Lookups : LookupLock(g)
    \/ \E g \in Lookups : LookupEvict(g)
    \/ \E g \in Lookups : LookupStore(g)
    \/ \E g \in Lookups : LookupUnlock(g)

CacheSpec == MatchInit /\ [][CacheNext]_vars

(***************************************************************************)
(* What the unit's syntax says, read off the unit itself and not off the   *)
(* result the run builds.                                                  *)
(***************************************************************************)

\* the files of u whose name ends in _test.go
TestFilesOf(u) == {fi \in 1..Len(u) : HasSuffix(u[fi].name, testFileSuffix)}

\* the declarations of u, as <<file, declaration>>
DeclsOf(u) == UNION {{<<fi, di>> : di \in 1..Len(u[fi].decls)} : fi \in 1..Len(u)}

DeclAt(u, p) == u[p[1]].decls[p[2]]

\* the test functions of u: the functions of its test files named Test...,
\* TestMain apart
TestFunctionsOf(u) ==
    {p \in DeclsOf(u) : /\ p[1] \in TestFilesOf(u)
                        /\ DeclAt(u, p).kind = "func"
                        /\ HasPrefix(DeclAt(u, p).name, testPrefix)
                        /\ DeclAt(u, p).name # testMainFunc}

\* the TestMain declarations of the test files of u
TestMainsOf(u) ==
    {p \in DeclsOf(u) : /\ p[1] \in TestFilesOf(u)
                        /\ DeclAt(u, p).kind = "func"
                        /\ DeclAt(u, p).name = testMainFunc}

\* the imports of the library in u, as <<file, import>>
LibraryImportsOf(u) ==
    {p \in UNION {{<<fi, ii>> : ii \in 1..Len(u[fi].imports)} : fi \in 1..Len(u)} :
        u[p[1]].imports[p[2]].path \in {goleakUberPath, goleakGithubPath}}

\* the name u knows the library by: that of its first import, files in unit
\* order and imports in declaration order; "" when no file imports it
ImportedAs(u) ==
    IF LibraryImportsOf(u) = {} THEN ""
    ELSE LET first == CHOOSE p \in LibraryImportsOf(u) :
                          \A q \in LibraryImportsOf(u) :
                              p[1] < q[1] \/ (p[1] = q[1] /\ p[2] <= q[2])
             given == u[first[1]].imports[first[2]].alias
         IN  IF given = "" THEN "goleak" ELSE given

\* the body of declaration d defers a.VerifyNone
DefersVerifyNone(d, a) ==
    \E i \in 1..Len(d.body) : d.body[i] = Defer(a, verifyNone)

\* the body of declaration d holds a call a.VerifyTestMain
CallsVerifyTestMain(d, a) ==
    \E i \in 1..Len(d.body) : d.body[i].x = a /\ d.body[i].sel = verifyTestMain

\* a TestMain of u calls the hook by the name a
HookInTestMain(u, a) == \E p \in TestMainsOf(u) : CallsVerifyTestMain(DeclAt(u, p), a)

\* the text of a path after its last separator of either kind
BareName(path) ==
    LET seps == {i \in 1..Len(path) : path[i] \in {"/", "\\"}}
        last == IF seps = {} THEN 0 ELSE CHOOSE i \in seps : \A j \in seps : j <= i
    IN  SubSeq(path, last + 1, Len(path))

\* a pattern of the list matches the text
Matched(text, patterns) == matchesAnyPattern(text, patterns, <<>>).r

\* the package is excluded under the configuration c
PackageExcluded(c) == Matched(PkgPath, c.ExcludePackages)

\* the file at fi is excluded: by its path as given or by its bare name
FileExcluded(fi) ==
    \/ Matched(unit[fi].name, config.ExcludeFiles)
    \/ Matched(BareName(unit[fi].name), config.ExcludeFiles)

\* the diagnostics reported so far at the declaration p
ReportsAt(p) == {i \in 1..Len(reports) : reports[i].pos = p}

\* the diagnostic of declaration p with the reason r is among those reported
Reported(p, r) ==
    \E i \in 1..Len(reports) :
        reports[i] = [pos |-> p, msg |-> Message(DeclAt(unit, p).name, r)]

\* the run has returned without an error and its deadline has not passed
Returned == pc = "done" /\ ~ctxDone /\ err = "nil"

\* the run took the parallel path
Parallel == Len(unit) > ParallelThreshold

\* what run does for the unit u under the configuration c when it goes
\* through the files one after the other, from an empty cache
SequentialRun(u, c) ==
    IF Len(u) = 0 \/ shouldExcludePackage(PkgPath, c, <<>>).r
       \/ ~hasNonExcludedTestFiles(u, c, <<>>).r
    THEN <<>>
    ELSE LET res == SequentialFrom(u, 1, getGoleakAlias(u), EmptyResult)
         IN  IF res.hasTestMain /\ res.hasVerifyTestMain THEN <<>>
             ELSE ReportLoop(res, 1, c, <<>>, <<>>)

\* name and message of each diagnostic
NamesAndMessages(ds) == {[name |-> d.name, msg |-> d.msg] : d \in ds}

(***************************************************************************)
(* The claims.                                                             *)
(***************************************************************************)

\* C1 (entry-point dominance): when the unit imports the library and a
\* TestMain in any of its test files calls <alias>.VerifyTestMain, the run
\* reports nothing, whatever the defers of the other functions, whatever
\* ExcludeFiles, whichever file holds TestMain: in no state is something
\* reported for such a unit
C1_EntryPointDominance ==
    reports = <<>> \/ ~(ImportedAs(unit) # "" /\ HookInTestMain(unit, ImportedAs(unit)))

\* C1's case: a run over two files has returned; the hook is called in the
\* TestMain of one and the other holds a test function without a defer
C1_Witness ==
    /\ Returned
    /\ HookInTestMain(unit, ImportedAs(unit))
    /\ result.hasVerifyTestMain
    /\ \E p \in TestFunctionsOf(unit) :
          /\ p[1] \notin {q[1] : q \in TestMainsOf(unit)}
          /\ ~DefersVerifyNone(DeclAt(unit, p), ImportedAs(unit))
          /\ ~FileExcluded(p[1])

\* C2 (coverage completeness): a test function of a test file whose body
\* defers <alias>.VerifyNone is never reported, under any Concurrency and on
\* both the sequential and the parallel path: in no state is a diagnostic at
\* the position of such a function
C2_CoverageCompleteness ==
    \A i \in 1..Len(reports) :
        (ImportedAs(unit) # "" /\ reports[i].pos \in TestFunctionsOf(unit)) =>
            ~DefersVerifyNone(DeclAt(unit, reports[i].pos), ImportedAs(unit))

\* C2's case: a parallel run of two workers has returned and reported
\* functions, and a function that defers VerifyNone is not among them
C2_Witness ==
    /\ Returned
    /\ Parallel
    /\ config.Concurrency = 2
    /\ reports # <<>>
    /\ \E p \in TestFunctionsOf(unit) :
          /\ DefersVerifyNone(DeclAt(unit, p), ImportedAs(unit))
          /\ ~FileExcluded(p[1])
          /\ ReportsAt(p) = {}

\* C3 (scheduling independence): a parallel run, of a unit that imports the
\* library, that returns without an error reports the set of diagnostics,
\* position and message, that a sequential run of the same unit under the
\* same configuration reports
C3_SchedulingIndependence ==
    (Returned /\ Parallel /\ ImportedAs(unit) # "") =>
        Diagnostics(reports) = Diagnostics(SequentialRun(unit, config))

\* C3's case: a parallel run has returned its diagnostics after merging the
\* files in another order than the sequential run does
C3_Witness ==
    /\ Returned
    /\ Parallel
    /\ reports # <<>>
    /\ result.testFuncs #
           SequentialFrom(unit, 1, getGoleakAlias(unit), EmptyResult).testFuncs

C5_PerFunctionReason ==
    (/\ Returned
     /\ ImportedAs(unit) # ""
     /\ ~PackageExcluded(config)
     /\ ~(result.hasTestMain /\ result.hasVerifyTestMain)) =>
        \A p \in TestFunctionsOf(unit) :
            (DeclAt(unit, p).name \notin result.funcsCoveredByDefer
             /\ ~FileExcluded(p[1])) =>
                /\ Cardinality(ReportsAt(p)) = 1
                /\ Reported(p, IF TestMainsOf(unit) # {} THEN ReasonTestMain
                               ELSE ReasonMissingDefer)

\* C5's case: a run has returned with the TestMain reason for a function of
\* a unit whose TestMain does not call the hook
C5_Witness ==
    /\ Returned
    /\ TestMainsOf(unit) # {}
    /\ ~HookInTestMain(unit, ImportedAs(unit))
    /\ \E p \in TestFunctionsOf(unit) : Reported(p, ReasonTestMain)

\* C6 (exclusion monotonicity): a run under ExcludePackages with one more
\* pattern reports nothing and returns no error when the pattern matches the
\* package path, and reports what the run before it reported when it does
\* not
C6_ExclusionMonotonicity ==
    (runNo > 1 /\ added # NoPattern /\ pc = "done" /\ ~ctxDone) =>
        IF matchesPattern(PkgPath, added, <<>>).r
        THEN reports = <<>> /\ err = "nil"
        ELSE Diagnostics(reports) = prevDiags

\* C6's case: the run before reported diagnostics; this one, with a pattern
\* more that matches the package path after one that does not, has returned
C6_Witness ==
    /\ runNo > 1
    /\ added # NoPattern
    /\ matchesPattern(PkgPath, added, <<>>).r
    /\ Contains(config.ExcludePackages, <<",">>)
    /\ prevDiags # {}
    /\ Returned

\* C7 (file exclusion): of the test functions a run finds uncovered, with
\* the library not imported, with a TestMain that omits the hook or with no
\* TestMain, those it has reported when it returns are those whose file
\* neither as the path given nor as the bare name matches ExcludeFiles
C7_FileExclusion ==
    (Returned /\ ~PackageExcluded(config)) =>
        \A p \in TestFunctionsOf(unit) :
            (IF ImportedAs(unit) = "" THEN TRUE
             ELSE /\ ~(result.hasTestMain /\ result.hasVerifyTestMain)
                  /\ DeclAt(unit, p).name \notin result.funcsCoveredByDefer) =>
                (ReportsAt(p) # {} <=>
                    ~(\/ Matched(unit[p[1]].name, config.ExcludeFiles)
                      \/ Matched(BareName(unit[p[1]].name), config.ExcludeFiles)))

\* C7's case: a run has returned diagnostics, and none for an uncovered
\* function of a file that only the bare name excludes, a name that follows
\* a backslash
C7_Witness ==
    /\ Returned
    /\ reports # <<>>
    /\ \E p \in TestFunctionsOf(unit) :
          /\ DeclAt(unit, p).name \notin result.funcsCoveredByDefer
          /\ ~Matched(unit[p[1]].name, config.ExcludeFiles)
          /\ Matched(BareName(unit[p[1]].name), config.ExcludeFiles)
          /\ Contains(unit[p[1]].name, <<"\\">>)
          /\ ReportsAt(p) = {}

\* C8 (deadline), as the specification states it: when the deadline passes
\* at any point of the run of a unit that has files, the run returns an
\* error and has reported nothing
C8_DeadlineSuppresses ==
    (pc = "done" /\ ctxDone /\ Len(unit) > 0) =>
        (err = "deadline" /\ reports = <<>>)

\* C9 (idempotence): a second run of the same unit under the same
\* configuration, defaults written and cache kept, reports the names and
\* messages the first one reported
C9_Idempotence ==
    (runNo > 1 /\ added = NoPattern /\ Returned) =>
        NamesAndMessages(Diagnostics(reports)) = NamesAndMessages(prevDiags)

\* C9's case: a second run has returned diagnostics, of a unit whose file
\* patterns the first run left compiled in the cache
C9_Witness ==
    /\ runNo > 1
    /\ added = NoPattern
    /\ Returned
    /\ regexCache # <<>>
    /\ config.ExcludeFiles # <<>>
    /\ reports # <<>>

\* C10 (alias resolution): the name run looks for is the explicit name of
\* the first import of either path of the library, files in unit order and
\* imports in declaration order, and goleak when that import has none; once
\* the extraction is through, a function that defers <name>.VerifyNone is in
\* the defer-covered set and is not reported, and a TestMain that calls
\* <name>.VerifyTestMain leaves the unit covered
C10_AliasResolution ==
    /\ pc \in {"analyze", "sequential", "parallel", "report", "acquire", "preorder"}
          => goleakAlias = ImportedAs(unit)
    /\ (pc = "report" \/ (pc = "done" /\ err = "nil" /\ goleakAlias # "")) =>
          /\ \A p \in TestFunctionsOf(unit) :
                DefersVerifyNone(DeclAt(unit, p), ImportedAs(unit)) =>
                    /\ DeclAt(unit, p).name \in result.funcsCoveredByDefer
                    /\ ReportsAt(p) = {}
          /\ HookInTestMain(unit, ImportedAs(unit)) =>
                result.hasVerifyTestMain /\ reports = <<>>

\* C10's case: the first import names the library gl, by its other path,
\* and a later one leaves it goleak; a run has returned, and of the function
\* that defers gl.VerifyNone and the one that defers goleak.VerifyNone it
\* has reported the second
C10_Witness ==
    /\ Returned
    /\ ImportedAs(unit) = "gl"
    /\ goleakAlias = "gl"
    /\ \E p, q \in TestFunctionsOf(unit) :
          /\ DefersVerifyNone(DeclAt(unit, p), "gl") /\ ReportsAt(p) = {}
          /\ DefersVerifyNone(DeclAt(unit, q), "goleak") /\ ReportsAt(q) # {}

(***************************************************************************)
(* What the specification says of one pattern, stated without the code's   *)
(* translation of a glob to an expression.                                 *)
(***************************************************************************)

\* the characters the specification counts as metacharacters
MetaChars == {".", "*", "+", "?", "^", "$", "{", "}", "(", ")", "[", "]", "|", "\\"}

\* s contains sub as a substring
IsSubstring(sub, s) ==
    \E i \in 0..(Len(s) - Len(sub)) : SubSeq(s, i + 1, i + Len(sub)) = sub

\* the whole of s matches the glob g: * is any sequence, every other
\* character is itself
RECURSIVE GlobMatches(_, _)
GlobMatches(g, s) ==
    IF g = <<>> THEN s = <<>>
    ELSE IF Head(g) = "*"
         THEN \E k \in 0..Len(s) : GlobMatches(Tail(g), SubSeq(s, k + 1, Len(s)))
    ELSE s # <<>> /\ Head(s) = Head(g) /\ GlobMatches(Tail(g), Tail(s))

\* the four steps in their order
Precedence(str, pattern) ==
    IF str = pattern THEN TRUE
    ELSE IF \A i \in 1..Len(pattern) : pattern[i] \notin MetaChars
         THEN IsSubstring(pattern, str)
    ELSE IF \A i \in 1..Len(pattern) : pattern[i] \in MetaChars => pattern[i] = "*"
         THEN GlobMatches(pattern, str)
    ELSE Compile(pattern).ok /\ MatchString(Compile(pattern).re, str)

\* the last direct call was matchesPattern with a pattern that is not empty
SinglePatternCall == outcome.fn = "matchesPattern" /\ tried # <<>>

\* C11: for every candidate and every single non-empty pattern,
\* matchesPattern returns what the four steps give in their order: equality,
\* else substring for a pattern without metacharacters, else the glob on the
\* whole candidate for a pattern whose only metacharacter is *, else the
\* pattern as a regular expression found anywhere in the candidate.
C11_PatternPrecedence ==
    SinglePatternCall => outcome.r = Precedence(candidate, tried)

\* the same for the candidates that hold no line break; this part holds
C11_PrecedenceOnOneLine ==
    (SinglePatternCall /\ ~IsSubstring(<<"\n">>, candidate))
        => outcome.r = Precedence(candidate, tried)

\* a glob was tried on a candidate with a line break that it spans
C11_Witness ==
    /\ SinglePatternCall
    /\ candidate = <<"a", "\n", "b">>
    /\ tried = <<"a", "*", "b">>
    /\ ~outcome.r

\* the file name the dotted glob is made of
DottedName == Tail(DottedGlob)

\* the function at p is uncovered in the merged result
Uncovered(p) ==
    IF ImportedAs(unit) = "" THEN TRUE
    ELSE /\ ~(result.hasTestMain /\ result.hasVerifyTestMain)
         /\ DeclAt(unit, p).name \notin result.funcsCoveredByDefer

\* C12: with ExcludeFiles set to * followed by a file name with a dot, no
\* test function of a file whose name ends with that file name is reported,
\* and the uncovered test functions of the other files are reported (in a
\* run that returned, of a package that is not excluded).
C12_DottedGlob ==
    (Returned /\ config.ExcludeFiles = DottedGlob /\ ~PackageExcluded(config)) =>
        /\ \A i \in 1..Len(reports) :
               ~HasSuffix(unit[reports[i].pos[1]].name, DottedName)
        /\ \A p \in TestFunctionsOf(unit) :
               (Uncovered(p) /\ ~HasSuffix(unit[p[1]].name, DottedName))
                   => ReportsAt(p) # {}

\* under the dotted glob a function of a_test.go is reported next to one of
\* another file
C12_Witness ==
    /\ Returned
    /\ config.ExcludeFiles = DottedGlob
    /\ \E i, j \in 1..Len(reports) :
           /\ HasSuffix(unit[reports[i].pos[1]].name, DottedName)
           /\ ~HasSuffix(unit[reports[j].pos[1]].name, DottedName)

\* the pattern, tried on str, gets to the regular-expression step
ReachesRegexStep(str, pattern) ==
    /\ str # pattern
    /\ \E i \in 1..Len(pattern) : pattern[i] \in MetaChars \ {"*"}

\* the pattern gets to the regular-expression step and does not compile
Malformed(str, pattern) == ReachesRegexStep(str, pattern) /\ ~Compile(pattern).ok

\* the elements of a pattern list, each trimmed
Elements(list) ==
    IF ~IsSubstring(<<",">>, list) THEN <<TrimSpace(list)>>
    ELSE [i \in 1..Len(Split(list)) |-> TrimSpace(Split(list)[i])]

\* C13: a pattern that reaches the regular-expression step and does not
\* compile matches no candidate and leaves the cache as it found it; the
\* cache never holds such a pattern; and a list that holds one gives what
\* its other elements give, each tried on its own.
C13_MalformedFailsClosed ==
    /\ \A k \in DOMAIN regexCache : Compile(k).ok
    /\ (outcome.fn = "matchesPattern" /\ Malformed(candidate, tried))
           => (~outcome.r /\ regexCache = outcome.before)
    /\ (/\ outcome.fn = "matchesAnyPattern"
        /\ \E i \in 1..Len(Elements(tried)) : Malformed(candidate, Elements(tried)[i]))
           => outcome.r =
                  \E i \in 1..Len(Elements(tried)) :
                      /\ Elements(tried)[i] # <<>>
                      /\ ~Malformed(candidate, Elements(tried)[i])
                      /\ matchesPattern(candidate, Elements(tried)[i], <<>>).r

\* a list whose first pattern does not compile matched by its second, which
\* this call compiled and stored
C13_Witness ==
    /\ outcome.fn = "matchesAnyPattern"
    /\ tried = <<"*", "a", ".", "b", ",", "b", "$">>
    /\ Malformed(candidate, Elements(tried)[1])
    /\ outcome.r
    /\ <<"b", "$">> \in DOMAIN regexCache \ DOMAIN outcome.before

\* the comma-separated elements of a list, each trimmed, whether the list
\* holds a comma or not
ListElements(list) == [i \in 1..Len(Split(list)) |-> TrimSpace(Split(list)[i])]

\* C14: matchesAnyPattern(candidate, list) is true if and only if an
\* element of the list, trimmed, is non-empty and matches the candidate; an
\* empty list and a list of blank elements give false for every candidate,
\* the empty one included, with one element or several.
C14_PatternList ==
    outcome.fn = "matchesAnyPattern" =>
        outcome.r =
            \E i \in 1..Len(ListElements(tried)) :
                /\ ListElements(tried)[i] # <<>>
                /\ matchesPattern(candidate, ListElements(tried)[i], <<>>).r

\* the same for the lists that hold a comma or a non-blank element; this
\* part holds
C14_SeveralOrNonBlank ==
    (/\ outcome.fn = "matchesAnyPattern"
     /\ (IsSubstring(<<",">>, tried) \/ TrimSpace(tried) # <<>> \/ tried = <<>>))
        => outcome.r =
               \E i \in 1..Len(ListElements(tried)) :
                   /\ ListElements(tried)[i] # <<>>
                   /\ matchesPattern(candidate, ListElements(tried)[i], <<>>).r

\* a list of one blank element was tried on the empty candidate and matched
C14_Witness ==
    /\ outcome.fn = "matchesAnyPattern"
    /\ candidate = <<>>
    /\ tried = <<" ">>
    /\ outcome.r

\* a result, merged or a worker's own, holds nothing of a file that is not a
\* test file: its test functions, its TestMain flags and its coverage marks
\* all come from test files
FromTestFilesOnly(res) ==
    /\ \A i \in 1..Len(res.testFuncs) : res.testFuncs[i].pos[1] \in TestFilesOf(unit)
    /\ res.hasTestMain => TestMainsOf(unit) # {}
    /\ res.hasVerifyTestMain =>
           \E p \in TestMainsOf(unit) :
               \E i \in 1..Len(DeclAt(unit, p).body) :
                   DeclAt(unit, p).body[i].sel = verifyTestMain
    /\ \A n \in res.funcsCoveredByDefer :
           \E p \in TestFunctionsOf(unit) : DeclAt(unit, p).name = n

\* the part of C15 about extraction; this part holds
C15_ExtractionSkips ==
    /\ FromTestFilesOnly(result)
    /\ \A w \in Workers : FromTestFilesOnly(wlocal[w])

\* C15: a function declared in a file whose name does not end in _test.go
\* contributes no test function, no TestMain flag and no coverage mark, and
\* is never reported, whatever the coverage of the unit, also when the
\* library is not imported.
C15_NonTestFilesSkipped ==
    /\ FromTestFilesOnly(result)
    /\ \A w \in Workers : FromTestFilesOnly(wlocal[w])
    /\ \A i \in 1..Len(reports) : reports[i].pos[1] \in TestFilesOf(unit)

\* a run of a unit that does not import the library has returned with a
\* diagnostic for a function of a file that is not a test file
C15_Witness ==
    /\ Returned
    /\ ImportedAs(unit) = ""
    /\ \E i \in 1..Len(reports) : reports[i].pos[1] \notin TestFilesOf(unit)

\* C16: under any interleaving of concurrent glob and regex lookups the
\* cache never holds more than 101 entries, and an insertion that finds more
\* than 100 has evicted down to 50 or fewer before it stores, so that the
\* cache holds at most 51 right after it.
C16_BoundedCache ==
    /\ CacheSize <= CacheLimit + 1
    /\ \A g \in Lookups :
           lfound[g] > CacheLimit =>
               /\ lpc[g] = "store" => CacheSize <= CacheKeep
               /\ lpc[g] = "unlock" => CacheSize <= CacheKeep + 1

\* a goroutine has just stored after finding 101 entries and evicting, while
\* another is in the middle of its own lookup
C16_Witness ==
    \E g, h \in Lookups :
        /\ g # h
        /\ lpc[g] = "unlock"
        /\ lfound[g] = CacheLimit + 1
        /\ CacheSize = CacheKeep + 1
        /\ lpc[h] = "lock"

\* the workers the scheduler has started
Started == {w \in Workers : wpc[w] # "off"}

\* the files the workers hold
Held == {wfile[w] : w \in {v \in Workers : wfile[v] # 0}}

\* the queue holds the files from some file on, in unit order; no two
\* workers hold one file; a file a worker holds is neither in the queue nor
\* merged; and no function is in the merged result twice
HandedOutOnce ==
    /\ \E k \in 1..(Len(unit) + 1) :
           fileChan = [i \in 1..(Len(unit) + 1 - k) |-> k - 1 + i]
    /\ \A v, w \in Workers : (v # w /\ wfile[v] # 0) => wfile[v] # wfile[w]
    /\ \A i \in 1..Len(fileChan) : fileChan[i] \notin Held
    /\ \A i \in 1..Len(result.testFuncs) :
           /\ result.testFuncs[i].pos[1] \notin Held
           /\ \A j \in 1..Len(result.testFuncs) :
                  i # j => result.testFuncs[i].pos # result.testFuncs[j].pos

\* C17: in the parallel path exactly min(Concurrency, number of files)
\* workers are started; no file is handed to two workers; and when the
\* workers have ended before any deadline, every file has been pulled and
\* merged once.
C17_WorkerPool ==
    /\ Started # {} => Parallel
    /\ pc = "parallel" =>
           Cardinality(Started) = IF config.Concurrency < Len(unit)
                                  THEN config.Concurrency ELSE Len(unit)
    /\ HandedOutOnce
    /\ (Started # {} /\ WorkersDone /\ ~ctxDone) =>
           /\ fileChan = <<>>
           /\ \A p \in TestFunctionsOf(unit) :
                  \E i \in 1..Len(result.testFuncs) : result.testFuncs[i].pos = p

\* the configuration asks for more workers than the unit has files, as many
\* workers as files are started, and two of them hold two different files
\* while files are left in the queue
C17_Witness ==
    /\ pc = "parallel"
    /\ config.Concurrency > Len(unit)
    /\ Cardinality(Started) = Len(unit)
    /\ Cardinality(Held) = 2
    /\ fileChan # <<>>

\* the workers between mu.Lock() and mu.Unlock()
Merging == {w \in Workers : wpc[w] \in {"merge", "unlock"}}

\* C18: at most one worker is executing mergeResults on the shared result;
\* the worker that holds the merge lock is that worker, so none holds it
\* while it pulls or extracts a file or after it has ended; and a worker
\* that has merged can always release the lock.
C18_MergeMutualExclusion ==
    /\ Cardinality(Merging) <= 1
    /\ \A w \in Workers : (mu = w) <=> (w \in Merging)
    /\ mu = 0 <=> Merging = {}
    /\ \A w \in Workers : wpc[w] = "unlock" => ENABLED WorkerUnlock(w)

\* a worker is about to merge under the lock while another, its file
\* extracted, waits for the lock and a third extracts
C18_Witness ==
    \E u, v, w \in Workers :
        /\ wpc[u] = "merge"
        /\ mu = u
        /\ wpc[v] = "lock"
        /\ wlocal[v].testFuncs # <<>>
        /\ wpc[w] = "check"

\* a step of a worker that looks at the deadline after it has fired: the
\* worker ends, and neither its own result nor the shared one changes
StopsAfterDeadline(w) ==
    (ctxDone /\ wpc[w] = "check" /\ wpc'[w] # "check")
        => (wpc'[w] = "done" /\ wlocal' = wlocal /\ result' = result)

\* a step of a worker whose file is extracted: it takes the lock, merges and
\* releases, deadline or not, and then pulls again
CompletesMerge(w) ==
    /\ (wpc[w] = "lock" /\ wpc'[w] # "lock") => wpc'[w] = "merge"
    /\ (wpc[w] = "merge" /\ wpc'[w] # "merge")
           => (wpc'[w] = "unlock" /\ result' = mergeResults(result, wlocal[w]))
    /\ (wpc[w] = "unlock" /\ wpc'[w] # "unlock") => wpc'[w] = "pull"

\* the scheduler's select, taken after the deadline has fired, returns the
\* deadline error
SelectsDeadline ==
    (ctxDone /\ pc = "parallel" /\ pc' # "parallel")
        => (pc' = "done" /\ err' = "deadline")

\* the part of C19 about the workers; this part holds
C19_WorkersStop ==
    [][\A w \in Workers : StopsAfterDeadline(w) /\ CompletesMerge(w)]_vars

\* C19: once the deadline has fired, a worker that pulls a file neither
\* extracts nor merges it and stops pulling; an extraction in flight still
\* completes its merge; and the scheduler returns the deadline error instead
\* of a result.
C19_CooperativeCancellation ==
    [][/\ \A w \in Workers : StopsAfterDeadline(w) /\ CompletesMerge(w)
       /\ SelectsDeadline]_vars

\* every name of funcsCoveredByDefer is the name of an entry of testFuncs,
\* and TestMain is in neither
WellFormed(res) ==
    /\ \A n \in res.funcsCoveredByDefer :
           \E i \in 1..Len(res.testFuncs) : res.testFuncs[i].name = n
    /\ testMainFunc \notin res.funcsCoveredByDefer
    /\ \A i \in 1..Len(res.testFuncs) : res.testFuncs[i].name # testMainFunc

\* C20: in the result of every file, in the result of every worker and in
\* the merged result after any merges, every name in funcsCoveredByDefer is
\* the name of an entry of testFuncs and TestMain is in neither; and no
\* diagnostic is reported at a TestMain.
C20_ResultInvariant ==
    /\ WellFormed(result)
    /\ \A w \in Workers : WellFormed(wlocal[w])
    /\ pc = "analyze" =>
           \A fi \in 1..Len(unit) :
               WellFormed(processFileForAnalysis(unit[fi], fi, goleakAlias))
    /\ \A i \in 1..Len(reports) : DeclAt(unit, reports[i].pos).name # testMainFunc

\* a parallel run of a unit whose TestMain defers VerifyNone by the name the
\* library is known by has returned diagnostics, with marks in the merged
\* result
C20_Witness ==
    /\ Parallel
    /\ Returned
    /\ \E p \in TestMainsOf(unit) : DefersVerifyNone(DeclAt(unit, p), goleakAlias)
    /\ result.funcsCoveredByDefer # {}
    /\ reports # <<>>

\* the test functions of the unit that share the name of the one at p
Namesakes(p) ==
    {q \in TestFunctionsOf(unit) : DeclAt(unit, q).name = DeclAt(unit, p).name}

\* the run has returned, the package is not excluded, the library is imported
\* and the result holds no entry-point coverage: the run has gone through the
\* loop over the test functions
WentThroughLoop ==
    /\ Returned
    /\ ImportedAs(unit) # ""
    /\ ~PackageExcluded(config)
    /\ ~(result.hasTestMain /\ result.hasVerifyTestMain)

C21_CoveredByNamesake ==
    /\ WentThroughLoop
    /\ \E p, q \in TestFunctionsOf(unit) :
           /\ p[1] # q[1]
           /\ q \in Namesakes(p)
           /\ ~DefersVerifyNone(DeclAt(unit, p), ImportedAs(unit))
           /\ DefersVerifyNone(DeclAt(unit, q), ImportedAs(unit))
           /\ ReportsAt(p) = {}

SchedulerReturnedResult ==
    pc = "report" \/ (pc = "done" /\ err = "nil" /\ goleakAlias # "")

\* the marks the files of the unit give, each extracted on its own
MarksOfFiles ==
    UNION {processFileForAnalysis(unit[fi], fi, goleakAlias).funcsCoveredByDefer :
               fi \in 1..Len(unit)}

\* the result holds what every file gives, once: each test function at one
\* index, no other entry, the marks and the flags of all the files
HoldsEveryFileOnce(res) ==
    /\ Len(res.testFuncs) = Cardinality(TestFunctionsOf(unit))
    /\ \A p \in TestFunctionsOf(unit) :
           \E i \in 1..Len(res.testFuncs) : res.testFuncs[i].pos = p
    /\ res.funcsCoveredByDefer = MarksOfFiles
    /\ res.hasTestMain = (TestMainsOf(unit) # {})
    /\ res.hasVerifyTestMain =
           \E fi \in 1..Len(unit) :
               processFileForAnalysis(unit[fi], fi, goleakAlias).hasVerifyTestMain

\* C22: whenever the parallel scheduler has returned a result with a nil
\* error, the queue is empty, no worker holds a file, every worker has
\* ended, and the result holds what every file of the unit gives, once.
C22_NoPartialResult ==
    (Parallel /\ SchedulerReturnedResult) =>
        /\ fileChan = <<>>
        /\ Held = {}
        /\ WorkersDone
        /\ errClosed
        /\ HoldsEveryFileOnce(result)

\* the scheduler of several workers has returned its result although the
\* deadline had fired by then or fired just after
C22_Witness ==
    /\ Parallel
    /\ pc = "report"
    /\ ctxDone
    /\ Cardinality(Started) > 1
    /\ result.testFuncs # <<>>

(***************************************************************************)
(* The worker pool under the scheduling of the Go runtime: a goroutine     *)
(* that can take its next step takes it. One run of a unit of more than    *)
(* ParallelThreshold files; the deadline may pass at any time, or never.    *)
(***************************************************************************)

\* the units of LargeUnits, which take the parallel path, with their
\* configurations: up to MaxWorkers workers for four files
PoolInputs == {in \in Inputs : in[1] \in LargeUnits}

PoolInit ==
    /\ \E in \in PoolInputs, numCPU \in 1..MaxWorkers :
           /\ unit = in[1]
           /\ config = NewWithConfig(in[2], numCPU)
    /\ regexCache = <<>>
    /\ runNo = 1
    /\ prevDiags = {}
    /\ added = NoPattern
    /\ Fresh
    /\ NoCall
    /\ NoLookup

PoolNext ==
    \/ Deadline
    \/ RunStart
    \/ RunAnalyze
    \/ ReportStep
    \/ \E w \in Workers : WorkerPull(w)
    \/ \E w \in Workers : WorkerCheck(w)
    \/ \E w \in Workers : WorkerLock(w)
    \/ \E w \in Workers : WorkerMerge(w)
    \/ \E w \in Workers : WorkerUnlock(w)
    \/ CloseErrChan
    \/ SchedulerSelect

\* every goroutine of analyzeTestFunctionsWithContext is scheduled while it
\* can run: the workers, the goroutine of wg.Wait and close(errChan), and
\* the select of the caller
PoolFairness ==
    /\ \A w \in Workers :
           /\ WF_vars(WorkerPull(w))
           /\ WF_vars(WorkerCheck(w))
           /\ WF_vars(WorkerLock(w))
           /\ WF_vars(WorkerMerge(w))
           /\ WF_vars(WorkerUnlock(w))
    /\ WF_vars(CloseErrChan)
    /\ WF_vars(SchedulerSelect)

PoolSpec == PoolInit /\ [][PoolNext]_vars /\ PoolFairness

\* C23: in the parallel path every worker and the goroutine that waits for
\* them end and the scheduler returns, with or without the deadline; no
\* worker waits forever on fileChan or on errChan, and nothing is sent on
\* errChan once it is closed
C23_SchedulerTermination ==
    /\ (pc = "parallel") ~> (pc # "parallel" /\ WorkersDone /\ errClosed)
    /\ [](errClosed => WorkersDone)
    /\ [][errClosed =>
              \/ errChan' = errChan
              \/ errChan # <<>> /\ errChan' = Tail(errChan)]_vars

\* the deadline ended two workers, the scheduler returned on ctx.Done() and
\* left the one error in the closed errChan
C23_Witness ==
    /\ Parallel
    /\ pc = "done"
    /\ err = "deadline"
    /\ errClosed
    /\ errChan # <<>>
    /\ Cardinality({w \in Workers : wpc[w] = "done"}) > 1

\* the name n is that of a test function of u whose own body defers
\* a.VerifyNone
MarkedInOwnBody(u, n, a) ==
    \E p \in TestFunctionsOf(u) :
        DeclAt(u, p).name = n /\ DefersVerifyNone(DeclAt(u, p), a)

\* C24 (enclosing-function attribution): a function is marked as covered
\* only when a defer of <alias>.VerifyNone lies in the body of a test
\* function of that name, and the hook counts as called only when a call of
\* <alias>.VerifyTestMain lies in the body of a TestMain; a statement after a
\* function's end or in a function that is no test function marks nothing.
C24_EnclosingFunction ==
    /\ \A n \in result.funcsCoveredByDefer : MarkedInOwnBody(unit, n, goleakAlias)
    /\ result.hasVerifyTestMain => HookInTestMain(unit, goleakAlias)

\* a run has returned and reported functions, yet none for a function that
\* is marked although no function of its name defers VerifyNone in its body:
\* the defer lies in a function literal declared after it
C24_Witness ==
    /\ Returned
    /\ WentThroughLoop
    /\ reports # <<>>
    /\ \E p \in TestFunctionsOf(unit) :
          /\ ~MarkedInOwnBody(unit, DeclAt(unit, p).name, goleakAlias)
          /\ DeclAt(unit, p).name \in result.funcsCoveredByDefer
          /\ p[2] < Len(unit[p[1]].decls)
          /\ DeclAt(unit, <<p[1], p[2] + 1>>).kind # "func"
          /\ ~FileExcluded(p[1])
          /\ ReportsAt(p) = {}

\* the body of declaration d holds a call a.VerifyTestMain that is not the
\* call of a defer statement
CallsHookDirectly(d, a) ==
    \E i \in 1..Len(d.body) : d.body[i] = Call(a, verifyTestMain)

\* C25 (setup-hook call form): the hook counts as called only when the body
\* of a TestMain holds a call <alias>.VerifyTestMain that is not deferred;
\* a unit whose TestMain only defers the hook has its test functions
\* evaluated one by one, so the ones without a defer are reported
C25_SetupHookCallForm ==
    /\ result.hasVerifyTestMain =>
           \E p \in TestMainsOf(unit) : CallsHookDirectly(DeclAt(unit, p), goleakAlias)
    /\ (/\ Returned
        /\ ImportedAs(unit) # ""
        /\ ~PackageExcluded(config)
        /\ ~\E p \in TestMainsOf(unit) : CallsHookDirectly(DeclAt(unit, p), ImportedAs(unit)))
       => \A p \in TestFunctionsOf(unit) :
              (/\ ~FileExcluded(p[1])
               /\ ~MarkedInOwnBody(unit, DeclAt(unit, p).name, ImportedAs(unit)))
              => ReportsAt(p) # {}

\* a run has returned without a diagnostic: the hook counts as called, yet
\* the only call of it in a TestMain is deferred, and a test function has no
\* defer of VerifyNone
C25_Witness ==
    /\ Returned
    /\ ImportedAs(unit) # ""
    /\ result.hasTestMain
    /\ result.hasVerifyTestMain
    /\ \E p \in TestMainsOf(unit) :
          \E i \in 1..Len(DeclAt(unit, p).body) :
              DeclAt(unit, p).body[i] = Defer(goleakAlias, verifyTestMain)
    /\ ~\E p \in TestMainsOf(unit) : CallsHookDirectly(DeclAt(unit, p), goleakAlias)
    /\ reports = <<>>
    /\ \E p \in TestFunctionsOf(unit) :
          /\ ~FileExcluded(p[1])
          /\ ~MarkedInOwnBody(unit, DeclAt(unit, p).name, goleakAlias)

\* in res the test functions of one file stand next to each other, in the
\* order of their declarations
InFileBlocks(res) ==
    \A i \in 1..Len(res.testFuncs) : \A j \in (i + 1)..Len(res.testFuncs) :
        res.testFuncs[i].pos[1] = res.testFuncs[j].pos[1] =>
            /\ res.testFuncs[i + 1].pos[1] = res.testFuncs[i].pos[1]
            /\ res.testFuncs[i].pos[2] < res.testFuncs[j].pos[2]

\* C26 (merged order): in the merged result, at every step of every
\* interleaving of the workers, the test functions of one file form one
\* block in the order of their declarations; only the order of the blocks
\* of different files is left to the scheduling
C26_MergedOrder ==
    result.testFuncs # <<>> => InFileBlocks(result)

\* a parallel run of two workers has merged all files: a file with two test
\* functions and, before it, the block of a file that comes later in
\* the unit
C26_Witness ==
    /\ Parallel
    /\ pc = "report"
    /\ Cardinality(Started) > 1
    /\ \E i, j \in 1..Len(result.testFuncs) :
          /\ i < j
          /\ result.testFuncs[i].pos[1] > result.testFuncs[j].pos[1]
          /\ j < Len(result.testFuncs)
          /\ result.testFuncs[j + 1].pos[1] = result.testFuncs[j].pos[1]

\* the lookups of LookupCalls whose patterns are known
KnownCalls == {call \in LookupCalls : call.pattern # UnseenKey}

\* what a lookup of call for str returns when it reads the cache now, and
\* what it returns when it compiles the expression of its key afresh
ThroughCache(str, call) == CachedMatch(str, KeyOf(call), regexCache).r
Afresh(str, call) ==
    Then(Compile(KeyOf(call)), LAMBDA cmp : cmp.ok /\ MatchString(cmp.re, str))

\* C27 (cache transparency): in every state of the cache that concurrent
\* lookups, repeated inserts of one key and evictions lead to, every entry is
\* the expression its key compiles to afresh, also when a glob and a regular
\* expression share the key; a lookup returns MatchString of the entry it
\* finds or of the expression it has just compiled, so for every candidate
\* and pattern it returns what the freshly compiled pattern returns
C27_CacheTransparency ==
    \A k \in DOMAIN regexCache :
        Compile(k).ok /\ regexCache[k] = Compile(k).re

\* the same for the results, candidate by candidate
C27_SameResults ==
    \A call \in KnownCalls : \A str \in Candidates :
        ThroughCache(str, call) = Afresh(str, call)

\* the glob a* and the regular expression ^a.*$ share their key; it is in the
\* cache, stored by a goroutine that had found more than CacheLimit entries
\* and evicted, while another goroutine that missed it is about to store it
\* again
C27_Witness ==
    \E g, h \in Lookups :
        /\ g # h
        /\ KeyOf([fn |-> "matchGlobPattern", pattern |-> <<"a", "*">>])
               = KeyOf([fn |-> "matchRegexPattern", pattern |-> <<"^", "a", ".", "*", "$">>])
        /\ lkey[g] = GlobToRegexp(<<"a", "*">>)
        /\ lkey[h] = lkey[g]
        /\ lkey[g] \in DOMAIN regexCache
        /\ lpc[g] = "unlock"
        /\ lfound[g] > CacheLimit
        /\ lpc[h] = "lock"
        /\ \E str \in Candidates :
               ThroughCache(str, [fn |-> "matchRegexPattern", pattern |-> <<"^", "a", ".", "*", "$">>])

\* the name the import p of u gives the library
NameOf(u, p) ==
    IF u[p[1]].imports[p[2]].alias = "" THEN "goleak" ELSE u[p[1]].imports[p[2]].alias

\* two files of u import the library under different names
ConflictingAliases(u) ==
    \E p, q \in LibraryImportsOf(u) : p[1] # q[1] /\ NameOf(u, p) # NameOf(u, q)

\* the names of the library in u that are not that of its first import
OtherNames(u) == {NameOf(u, p) : p \in LibraryImportsOf(u)} \ {ImportedAs(u)}

\* the test function at p defers VerifyNone, and only under such a name
DefersUnderOtherName(u, p) ==
    /\ \E o \in OtherNames(u) : DefersVerifyNone(DeclAt(u, p), o)
    /\ ~MarkedInOwnBody(u, DeclAt(u, p).name, ImportedAs(u))

\* a run of a unit with conflicting names has returned without the
\* deadline; neither the package nor all of its test files are excluded
ConflictRun ==
    /\ pc = "done"
    /\ ~ctxDone
    /\ ConflictingAliases(unit)
    /\ ~PackageExcluded(config)
    /\ \E fi \in TestFilesOf(unit) : ~FileExcluded(fi)

\* C28 (conflicting aliases), as stated: with the library imported under
\* different names in two files, only the name of the first import in file
\* order is known, the run returns no error, and a test function whose
\* deferred VerifyNone is written under another name is reported with the
\* reason "missing defer goleak.VerifyNone(t)"; read for the runs in which
\* no TestMain calls the hook, the others report nothing at all
C28_ConflictingAliases ==
    (ConflictRun /\ ~HookInTestMain(unit, ImportedAs(unit))) =>
        /\ err = "nil"
        /\ goleakAlias = ImportedAs(unit)
        /\ \A p \in TestFunctionsOf(unit) :
               (DefersUnderOtherName(unit, p) /\ ~FileExcluded(p[1])) =>
                   Reported(p, ReasonMissingDefer)

\* C28, amended: such a function is taken for one without a defer; it is
\* not reported when a TestMain calls the hook, reported with the reason of
\* a TestMain that does not call the hook when there is such a TestMain, and
\* with "missing defer goleak.VerifyNone(t)" otherwise; never with "goleak
\* not imported"
C28_ConflictingAliasesAmended ==
    ConflictRun =>
        /\ err = "nil"
        /\ goleakAlias = ImportedAs(unit)
        /\ \A p \in TestFunctionsOf(unit) :
               (DefersUnderOtherName(unit, p) /\ ~FileExcluded(p[1])) =>
                   /\ ~Reported(p, ReasonNotImported)
                   /\ IF HookInTestMain(unit, ImportedAs(unit)) THEN ReportsAt(p) = {}
                      ELSE IF TestMainsOf(unit) # {} THEN Reported(p, ReasonTestMain)
                      ELSE Reported(p, ReasonMissingDefer)

\* a run has returned: the first file imports the library as gl, a later
\* one under its own name, there is no TestMain, and a function that defers
\* goleak.VerifyNone is reported with "missing defer goleak.VerifyNone(t)"
C28_Witness ==
    /\ ConflictRun
    /\ goleakAlias = "gl"
    /\ TestMainsOf(unit) = {}
    /\ \E p \in TestFunctionsOf(unit) :
          /\ DefersUnderOtherName(unit, p)
          /\ DefersVerifyNone(DeclAt(unit, p), "goleak")
          /\ p[1] > 1
          /\ Reported(p, ReasonMissingDefer)

\* the reason the i-th diagnostic carries
ReasonOf(i) == reports[i].msg[4]

\* the reason that the facts of the whole unit give: the library imported or
\* not, a TestMain in a test file or none
UnitReason ==
    IF ImportedAs(unit) = "" THEN ReasonNotImported
    ELSE IF TestMainsOf(unit) # {} THEN ReasonTestMain
    ELSE ReasonMissingDefer

\* C29 (single reason per run): the diagnostics of one run all carry one
\* reason, the one that the facts of the unit give, and in every result, of
\* a file or merged, hasVerifyTestMain comes with hasTestMain
C29_SingleReason ==
    /\ reports # <<>> =>
           \E r \in {UnitReason} : \A i \in 1..Len(reports) : ReasonOf(i) = r
    /\ result.hasVerifyTestMain => result.hasTestMain
    /\ \A w \in Workers : wlocal[w].hasVerifyTestMain => wlocal[w].hasTestMain

\* a run has returned diagnostics for functions of two files, one of which
\* holds a TestMain that does not call the hook
C29_Witness ==
    /\ Returned
    /\ result.hasTestMain
    /\ \E i, j \in 1..Len(reports) :
          /\ reports[i].pos[1] # reports[j].pos[1]
          /\ reports[i].pos[1] \in {p[1] : p \in TestMainsOf(unit)}
          /\ reports[j].pos[1] \notin {p[1] : p \in TestMainsOf(unit)}
          /\ ReasonOf(j) = ReasonTestMain

(***************************************************************************)
(* NewWithConfig called by a host, and a run of the analyzer it returns.   *)
(***************************************************************************)

\* what callers pass: nil, and values of Concurrency and Timeout below, at
\* and above zero
CallerConfigs ==
    {NilConfig}
    \cup {RawConfig(NoPatterns, NoPatterns, n, t) : n \in -1..MaxWorkers, t \in {-1, 0, 5}}

\* the unit of the run
ConfigUnit == <<FileA, FileB, FileN, FileH>>

\* before the call; the default Analyzer of the package exists
ConfigInit ==
    /\ unit = ConfigUnit
    /\ config = NewWithConfig(RawConfig(NoPatterns, NoPatterns, 0, 0), 1)
    /\ regexCache = <<>>
    /\ runNo = 1
    /\ prevDiags = {}
    /\ added = NoPattern
    /\ Fresh
    /\ NoCall
    /\ NoLookup

\* NewWithConfig has been called
Built == outcome.fn = "NewWithConfig"

\* the call of NewWithConfig
CallNewWithConfig ==
    /\ ~Built
    /\ \E raw \in CallerConfigs, numCPU \in 1..MaxWorkers :
           /\ config' = NewWithConfig(raw, numCPU)
           /\ outcome' = [fn |-> "NewWithConfig", raw |-> raw, numCPU |-> numCPU]
    /\ UNCHANGED <<unit, runNo, prevDiags, added, candidate, tried, lookupVars,
                   regexCache, pc, ctxDone, goleakAlias, result, idx, semaphore,
                   reports, err, workerVars>>

ConfigNext ==
    \/ CallNewWithConfig
    \/ Built /\ PoolNext

ConfigSpec == ConfigInit /\ [][ConfigNext]_vars

\* the caller's value is not positive
Unset(raw, field) == IsNil(raw) \/ raw[field] <= 0

\* C30 (configuration defaults): NewWithConfig replaces a Concurrency that
\* is not positive by the number of CPUs and a Timeout that is not positive
\* by 30 minutes, a nil configuration being an empty one; so in every run
\* the capacity is at least 1, the parallel path has started at least one
\* worker, and the deadline is set: it can pass as long as the run lasts
C30_ConfigurationDefaults ==
    Built =>
        /\ config.Concurrency = IF Unset(outcome.raw, "Concurrency") THEN outcome.numCPU
                                ELSE outcome.raw.Concurrency
        /\ config.Timeout = IF Unset(outcome.raw, "Timeout") THEN DefaultTimeout
                            ELSE outcome.raw.Timeout
        /\ config.Concurrency >= 1
        /\ config.Timeout > 0
        /\ pc = "parallel" => \E w \in Workers : wpc[w] # "off"
        /\ (pc # "done" /\ ~ctxDone) => ENABLED Deadline

\* the caller passed nil, or a negative Concurrency and a negative Timeout:
\* the workers of the parallel path have started and the deadline has passed
C30_Witness ==
    /\ Built
    /\ \/ IsNil(outcome.raw)
       \/ outcome.raw.Concurrency < 0 /\ outcome.raw.Timeout < 0
    /\ outcome.numCPU = MaxWorkers
    /\ pc = "parallel"
    /\ Cardinality(Started) = MaxWorkers
    /\ ctxDone

====
